---- MODULE Spec2Model ----
(***************************************************************************)
(* kanbars: the ticket board (model.rs), the run loop (main.rs) and the    *)
(* renderer (ui.rs) as a state machine.                                    *)
(*                                                                         *)
(* A Rust String is the sequence of its code points; where the code takes  *)
(* a length in bytes, len counts them.  Option<T> is a sequence of length  *)
(* at most one: <<>> is None and <<x>> is Some(x).                         *)
(***************************************************************************)
EXTENDS Integers, Sequences, FiniteSets, TLC

\* ------------------------------------------------------------------------
\* Strings
\* ------------------------------------------------------------------------

None == <<>>

Some(x) == <<x>>

\* char::to_lowercase on ASCII: 'A'..'Z' (65..90) map to 'a'..'z'.
LowerChar(c) == IF c >= 65 /\ c <= 90 THEN c + 32 ELSE c

\* to_lowercase that leaves the case as it is.
to_lowercase_keeps_case(s) == s

\* str::to_lowercase
to_lowercase(s) == [i \in 1..Len(s) |-> LowerChar(s[i])]

\* str::contains(pat): pat occurs in s as a contiguous substring.
contains(s, pat) ==
    \E i \in 0..(Len(s) - Len(pat)) :
        \A j \in 1..Len(pat) : s[i + j] = pat[j]

\* Ord for String: lexicographic on bytes, a proper prefix sorts first.
RECURSIVE StrLess(_, _)
StrLess(a, b) ==
    IF b = <<>> THEN FALSE
    ELSE IF a = <<>> THEN TRUE
    ELSE IF a[1] # b[1] THEN a[1] < b[1]
    ELSE StrLess(Tail(a), Tail(b))

\* The keywords of the status tables.
Kw ==
    [ backlog |->
          <<98, 97, 99, 107, 108, 111, 103>>,  \* "backlog"
      todo |->
          <<116, 111, 100, 111>>,  \* "todo"
      to_do |->
          <<116, 111, 32, 100, 111>>,  \* "to do"
      open |->
          <<111, 112, 101, 110>>,  \* "open"
      new |->
          <<110, 101, 119>>,  \* "new"
      ready_for_development |->
          <<114, 101, 97, 100, 121, 32, 102, 111, 114, 32, 100, 101, 118, 101, 108, 111, 112, 109, 101, 110, 116>>,  \* "ready for development"
      ready_to_start |->
          <<114, 101, 97, 100, 121, 32, 116, 111, 32, 115, 116, 97, 114, 116>>,  \* "ready to start"
      in_progress |->
          <<105, 110, 32, 112, 114, 111, 103, 114, 101, 115, 115>>,  \* "in progress"
      in_dash_progress |->
          <<105, 110, 45, 112, 114, 111, 103, 114, 101, 115, 115>>,  \* "in-progress"
      development |->
          <<100, 101, 118, 101, 108, 111, 112, 109, 101, 110, 116>>,  \* "development"
      in_dev |->
          <<105, 110, 32, 100, 101, 118>>,  \* "in dev"
      coding |->
          <<99, 111, 100, 105, 110, 103>>,  \* "coding"
      implementing |->
          <<105, 109, 112, 108, 101, 109, 101, 110, 116, 105, 110, 103>>,  \* "implementing"
      ready_to_ship |->
          <<114, 101, 97, 100, 121, 32, 116, 111, 32, 115, 104, 105, 112>>,  \* "ready to ship"
      ready_for_deploy |->
          <<114, 101, 97, 100, 121, 32, 102, 111, 114, 32, 100, 101, 112, 108, 111, 121>>,  \* "ready for deploy"
      review |->
          <<114, 101, 118, 105, 101, 119>>,  \* "review"
      pr |->
          <<112, 114>>,  \* "pr"
      testing |->
          <<116, 101, 115, 116, 105, 110, 103>>,  \* "testing"
      qa |->
          <<113, 97>>,  \* "qa"
      verification |->
          <<118, 101, 114, 105, 102, 105, 99, 97, 116, 105, 111, 110>>,  \* "verification"
      approval |->
          <<97, 112, 112, 114, 111, 118, 97, 108>>,  \* "approval"
      staging |->
          <<115, 116, 97, 103, 105, 110, 103>>,  \* "staging"
      done |->
          <<100, 111, 110, 101>>,  \* "done"
      closed |->
          <<99, 108, 111, 115, 101, 100>>,  \* "closed"
      resolved |->
          <<114, 101, 115, 111, 108, 118, 101, 100>>,  \* "resolved"
      shipped |->
          <<115, 104, 105, 112, 112, 101, 100>>,  \* "shipped"
      deployed |->
          <<100, 101, 112, 108, 111, 121, 101, 100>>,  \* "deployed"
      complete |->
          <<99, 111, 109, 112, 108, 101, 116, 101>>,  \* "complete"
      progress |->
          <<112, 114, 111, 103, 114, 101, 115, 115>>,  \* "progress"
      ship |->
          <<115, 104, 105, 112>> ]  \* "ship"

\* ------------------------------------------------------------------------
\* Status classifier (model.rs)
\* ------------------------------------------------------------------------

\* get_status_priority: the first matching rule wins, 15 when none matches.
get_status_priority(status) ==
    LET status_lower == to_lowercase(status) IN
    IF contains(status_lower, Kw.backlog) THEN 0
    ELSE IF contains(status_lower, Kw.todo) \/ status_lower = Kw.to_do THEN 1
    ELSE IF contains(status_lower, Kw.open) \/ contains(status_lower, Kw.new) THEN 2
    ELSE IF contains(status_lower, Kw.ready_for_development)
            \/ contains(status_lower, Kw.ready_to_start) THEN 3
    ELSE IF contains(status_lower, Kw.in_progress)
            \/ contains(status_lower, Kw.in_dash_progress) THEN 10
    ELSE IF contains(status_lower, Kw.development)
            \/ contains(status_lower, Kw.in_dev) THEN 11
    ELSE IF contains(status_lower, Kw.coding)
            \/ contains(status_lower, Kw.implementing) THEN 12
    ELSE IF contains(status_lower, Kw.ready_to_ship)
            \/ contains(status_lower, Kw.ready_for_deploy) THEN 15
    ELSE IF contains(status_lower, Kw.review) \/ contains(status_lower, Kw.pr) THEN 20
    ELSE IF contains(status_lower, Kw.testing) \/ contains(status_lower, Kw.qa) THEN 21
    ELSE IF contains(status_lower, Kw.verification)
            \/ contains(status_lower, Kw.approval) THEN 22
    ELSE IF contains(status_lower, Kw.staging) THEN 23
    ELSE IF contains(status_lower, Kw.done) THEN 30
    ELSE IF contains(status_lower, Kw.closed) THEN 31
    ELSE IF contains(status_lower, Kw.resolved) THEN 32
    ELSE IF contains(status_lower, Kw.shipped)
            \/ contains(status_lower, Kw.deployed) THEN 33
    ELSE IF contains(status_lower, Kw.complete) THEN 34
    ELSE 15

\* The emoji get_status_emoji returns, as code points.
Emoji ==
    [ check |-> <<9989>>,      \* U+2705
      rocket |-> <<128640>>,   \* U+1F680
      glass |-> <<128269>>,    \* U+1F50D
      clipboard |-> <<128203>>,  \* U+1F4CB
      pin |-> <<128204>> ]     \* U+1F4CC

\* get_status_emoji: the first matching rule wins, the pin when none matches.
get_status_emoji(status) ==
    LET status_lower == to_lowercase(status) IN
    IF contains(status_lower, Kw.done) \/ contains(status_lower, Kw.closed)
       \/ contains(status_lower, Kw.resolved)
       \/ contains(status_lower, Kw.complete) THEN Emoji.check
    ELSE IF contains(status_lower, Kw.progress)
            \/ contains(status_lower, Kw.development)
            \/ contains(status_lower, Kw.coding)
            \/ contains(status_lower, Kw.ship) THEN Emoji.rocket
    ELSE IF contains(status_lower, Kw.review)
            \/ contains(status_lower, Kw.testing)
            \/ contains(status_lower, Kw.qa)
            \/ contains(status_lower, Kw.verification) THEN Emoji.glass
    ELSE IF contains(status_lower, Kw.todo)
            \/ contains(status_lower, Kw.backlog)
            \/ status_lower = Kw.to_do
            \/ contains(status_lower, Kw.open) THEN Emoji.clipboard
    ELSE Emoji.pin

\* get_status_color: the first matching rule wins, Blue when none matches.
get_status_color(status) ==
    LET status_lower == to_lowercase(status) IN
    IF contains(status_lower, Kw.done) \/ contains(status_lower, Kw.closed)
       \/ contains(status_lower, Kw.resolved)
       \/ contains(status_lower, Kw.complete) THEN "Green"
    ELSE IF contains(status_lower, Kw.progress)
            \/ contains(status_lower, Kw.development)
            \/ contains(status_lower, Kw.coding)
            \/ contains(status_lower, Kw.ship) THEN "Yellow"
    ELSE IF contains(status_lower, Kw.review)
            \/ contains(status_lower, Kw.testing)
            \/ contains(status_lower, Kw.qa)
            \/ contains(status_lower, Kw.verification) THEN "Magenta"
    ELSE IF contains(status_lower, Kw.todo)
            \/ contains(status_lower, Kw.backlog)
            \/ status_lower = Kw.to_do
            \/ contains(status_lower, Kw.open) THEN "Cyan"
    ELSE "Blue"

\* "To Do"
ToDo ==
    <<84, 111, 32, 68, 111>>

\* "to do"
to_do ==
    <<116, 111, 32, 100, 111>>

\* "Done"
Done ==
    <<68, 111, 110, 101>>

\* "In Progress"
InProgress ==
    <<73, 110, 32, 80, 114, 111, 103, 114, 101, 115, 115>>

\* "Code Review"
CodeReview ==
    <<67, 111, 100, 101, 32, 82, 101, 118, 105, 101, 119>>

\* "Blocked"
Blocked ==
    <<66, 108, 111, 99, 107, 101, 100>>

\* "Ready to Ship"
ReadyToShip ==
    <<82, 101, 97, 100, 121, 32, 116, 111, 32, 83, 104, 105, 112>>

\* "Shipped"
Shipped ==
    <<83, 104, 105, 112, 112, 101, 100>>

\* ------------------------------------------------------------------------
\* Tickets and the board (model.rs)
\* ------------------------------------------------------------------------

\* A ticket key "A-n".
Key(n) == <<65, 45, 48 + n>>

\* "Fix login"
SummaryText ==
    <<70, 105, 120, 32, 108, 111, 103, 105, 110>>

\* "unassigned"
Unassigned ==
    <<117, 110, 97, 115, 115, 105, 103, 110, 101, 100>>

\* A ticket as fetch_tickets_api builds it: the extended fields are absent.
Ticket(n, status) ==
    [ key         |-> Key(n),
      ticket_type |-> "Task",
      summary     |-> SummaryText,
      status      |-> status,
      assignee    |-> Unassigned,
      description |-> None,
      priority    |-> None,
      reporter    |-> None,
      created     |-> None,
      updated     |-> None,
      labels      |-> None,
      comments    |-> None ]

\* StatusGroups::new: the empty BTreeMap.  The map is the sequence of its
\* entries [status, tickets] in ascending key order, which is the order
\* BTreeMap::iter and BTreeMap::values visit them in.
StatusGroupsNew == <<>>

\* entry_push with the push replaced by an insert: a second ticket of a
\* status replaces the first instead of joining it.
RECURSIVE entry_push_overwrite(_, _, _)
entry_push_overwrite(groups, status, ticket) ==
    IF groups = <<>>
    THEN <<[status |-> status, tickets |-> <<ticket>>]>>
    ELSE IF groups[1].status = status
    THEN <<[groups[1] EXCEPT !.tickets = <<ticket>>]>> \o Tail(groups)
    ELSE IF StrLess(status, groups[1].status)
    THEN <<[status |-> status, tickets |-> <<ticket>>]>> \o groups
    ELSE <<groups[1]>> \o entry_push_overwrite(Tail(groups), status, ticket)

\* groups.entry(status).or_insert_with(Vec::new).push(ticket)
RECURSIVE entry_push(_, _, _)
entry_push(groups, status, ticket) ==
    IF groups = <<>>
    THEN <<[status |-> status, tickets |-> <<ticket>>]>>
    ELSE IF groups[1].status = status
    THEN <<[groups[1] EXCEPT !.tickets = Append(@, ticket)]>> \o Tail(groups)
    ELSE IF StrLess(status, groups[1].status)
    THEN <<[status |-> status, tickets |-> <<ticket>>]>> \o groups
    ELSE <<groups[1]>> \o entry_push(Tail(groups), status, ticket)

\* sort_insert of a sort that is not stable: t goes before the elements of
\* its own priority.
RECURSIVE sort_insert_unstable(_, _)
sort_insert_unstable(sorted, t) ==
    IF sorted = <<>> THEN <<t>>
    ELSE IF get_status_priority(sorted[Len(sorted)].status)
                < get_status_priority(t.status)
    THEN Append(sorted, t)
    ELSE Append(sort_insert_unstable(SubSeq(sorted, 1, Len(sorted) - 1), t),
                sorted[Len(sorted)])

\* One step of the stable sort: t goes after every element whose priority
\* is not greater than its own.
RECURSIVE sort_insert(_, _)
sort_insert(sorted, t) ==
    IF sorted = <<>> THEN <<t>>
    ELSE IF get_status_priority(sorted[Len(sorted)].status)
                <= get_status_priority(t.status)
    THEN Append(sorted, t)
    ELSE Append(sort_insert(SubSeq(sorted, 1, Len(sorted) - 1), t),
                sorted[Len(sorted)])

\* tickets.sort_by(|a, b| priority(a).cmp(priority(b))): slice::sort_by is
\* stable, so equal priorities keep their input order.
RECURSIVE sort_by_priority(_)
sort_by_priority(tickets) ==
    IF tickets = <<>> THEN <<>>
    ELSE sort_insert(sort_by_priority(SubSeq(tickets, 1, Len(tickets) - 1)),
                     tickets[Len(tickets)])

\* The grouping loop of from_tickets over the sorted tickets.
RECURSIVE group_all(_, _)
group_all(groups, tickets) ==
    IF tickets = <<>> THEN groups
    ELSE group_all(entry_push(groups, tickets[1].status, tickets[1]),
                   Tail(tickets))

\* StatusGroups::from_tickets
from_tickets(tickets) ==
    group_all(StatusGroupsNew, sort_by_priority(tickets))

\* StatusGroups::total_tickets
RECURSIVE total_tickets(_)
total_tickets(groups) ==
    IF groups = <<>> THEN 0
    ELSE Len(groups[1].tickets) + total_tickets(Tail(groups))

\* Vec::get
get(v, i) == IF i >= 0 /\ i < Len(v) THEN Some(v[i + 1]) ELSE None

\* ticket_walk with <= for < in the range test.
RECURSIVE ticket_walk_inclusive(_, _, _, _)
ticket_walk_inclusive(groups, g, global_index, current_index) ==
    IF g > Len(groups) THEN None
    ELSE IF global_index <= current_index + Len(groups[g].tickets)
    THEN get(groups[g].tickets, global_index - current_index)
    ELSE ticket_walk_inclusive(groups, g + 1, global_index,
                               current_index + Len(groups[g].tickets))

\* ticket_walk without the subtraction of current_index.
RECURSIVE ticket_walk_no_offset(_, _, _, _)
ticket_walk_no_offset(groups, g, global_index, current_index) ==
    IF g > Len(groups) THEN None
    ELSE IF global_index < current_index + Len(groups[g].tickets)
    THEN get(groups[g].tickets, global_index)
    ELSE ticket_walk_no_offset(groups, g + 1, global_index,
                               current_index + Len(groups[g].tickets))

\* The loop of get_ticket_by_index from the entry at position g on, with
\* current_index tickets in the entries before it.
RECURSIVE ticket_walk(_, _, _, _)
ticket_walk(groups, g, global_index, current_index) ==
    IF g > Len(groups) THEN None
    ELSE IF global_index < current_index + Len(groups[g].tickets)
    THEN get(groups[g].tickets, global_index - current_index)
    ELSE ticket_walk(groups, g + 1, global_index,
                     current_index + Len(groups[g].tickets))

\* StatusGroups::get_ticket_by_index
get_ticket_by_index(groups, global_index) ==
    ticket_walk(groups, 1, global_index, 0)

\* ------------------------------------------------------------------------
\* Inputs
\* ------------------------------------------------------------------------

\* The longest ticket list a fetch returns.
MaxTickets == 3

\* The status strings tickets carry.
Statuses ==
    {ToDo, to_do, Done, InProgress, CodeReview, Blocked, ReadyToShip, Shipped}

\* The ticket lists of at most maxlen tickets with statuses from the given
\* set: the n-th ticket of a list has key "A-n", so keys are pairwise
\* distinct.
TicketLists(statuses, maxlen) ==
    UNION { { [i \in 1..n |-> Ticket(i, f[i])] : f \in [1..n -> statuses] }
            : n \in 0..maxlen }

\* ------------------------------------------------------------------------
\* State
\* ------------------------------------------------------------------------

VARIABLES
    tickets_in,         \* the Vec<Ticket> last handed to from_tickets
    columns,            \* the board: StatusGroups.groups
    lookup,             \* the last get_ticket_by_index call: index and result
    ranked,             \* the last status classified: status, rank, emoji, colour
    mode,               \* app_state.mode: "Board" or "Detail"
    selected_index,     \* app_state.selected_index
    detail_ticket,      \* app_state.detail_ticket: Option<Ticket>
    detail_scroll,      \* app_state.detail_scroll
    detail_max_scroll,  \* app_state.detail_max_scroll
    paused,             \* run_app's pause flag
    now,                \* the clock, in seconds
    last_refresh,       \* run_app's refresh timestamp (an Instant)
    last_update_time,   \* run_app's last-update time shown in the title
    frame,              \* what the last terminal.draw rendered
    in_flight,          \* the fetches called and not yet returned
    polled,             \* what event::poll gave in this loop iteration
    nav_start,          \* Some(selected_index when the key log started)
    trail,              \* the log of navigation keys: key and resulting index
    pc                  \* where the program is

board_vars == <<tickets_in, columns>>

app_vars ==
    <<mode, selected_index, detail_ticket, detail_scroll, detail_max_scroll>>

time_vars == <<paused, now, last_refresh, last_update_time>>

log_vars == <<lookup, ranked, nav_start, trail>>

vars ==
    <<board_vars, app_vars, time_vars, frame, in_flight, polled, log_vars, pc>>

NoLookup == [index |-> 0, result |-> None]

NoRank == [status |-> <<>>, result |-> 0, emoji |-> <<>>, color |-> ""]

NoFrame == [view |-> "none"]

\* The fetched tickets and the board made of them, run_app's locals and
\* the initial AppState with the selection at the given index; start is
\* Some(index) when the navigation keys are to be logged from here on.
StartState(tickets, board, index, start) ==
    /\ tickets_in = tickets
    /\ columns = board
    /\ mode = "Board"
    /\ selected_index = index
    /\ detail_ticket = None
    /\ detail_scroll = 0
    /\ detail_max_scroll = 0
    /\ paused = FALSE
    /\ now = 0
    /\ last_refresh = 0
    /\ last_update_time = 0
    /\ frame = NoFrame
    /\ in_flight = {}
    /\ polled = "none"
    /\ lookup = NoLookup
    /\ ranked = NoRank
    /\ nav_start = start
    /\ trail = <<>>

\* ------------------------------------------------------------------------
\* Grouping a fetched list and resolving indexes in it (main.rs 57-58,
\* model.rs)
\* ------------------------------------------------------------------------

GroupsInit ==
    /\ \E t \in TicketLists(Statuses, MaxTickets) :
          StartState(t, StatusGroupsNew, 0, None)
    /\ pc = "fetched"

\* let columns = StatusGroups::from_tickets(tickets)
CallFromTickets ==
    /\ pc = "fetched"
    /\ columns' = from_tickets(tickets_in)
    /\ pc' = "grouped"
    /\ UNCHANGED <<tickets_in, app_vars, time_vars, frame, in_flight, polled,
                   log_vars>>

\* columns.get_ticket_by_index(i)
CallGetTicketByIndex ==
    /\ pc \in {"grouped", "resolved"}
    /\ \E i \in 0..(MaxTickets + 1) :
          lookup' = [index |-> i, result |-> get_ticket_by_index(columns, i)]
    /\ pc' = "resolved"
    /\ UNCHANGED <<board_vars, app_vars, time_vars, frame, in_flight, polled,
                   ranked, nav_start, trail>>

GroupsNext ==
    \/ CallFromTickets
    \/ CallGetTicketByIndex

SpecGroups == GroupsInit /\ [][GroupsNext]_vars

\* ------------------------------------------------------------------------
\* Ranking a status (model.rs get_status_priority)
\* ------------------------------------------------------------------------

\* The keywords of the status tables.
Keywords == { Kw[k] : k \in DOMAIN Kw }

\* A status in capitals, and with a capital first letter.
UpperChar(c) == IF c >= 97 /\ c <= 122 THEN c - 32 ELSE c

Shout(s) == [i \in 1..Len(s) |-> UpperChar(s[i])]

Capitalized(s) == [i \in 1..Len(s) |-> IF i = 1 THEN UpperChar(s[i]) ELSE s[i]]

\* "On Hold"
OnHold ==
    <<79, 110, 32, 72, 111, 108, 100>>

\* The statuses ranked: those of the boards, every keyword in lower case, in
\* capitals and capitalized, every two keywords with a space between them,
\* and statuses no keyword occurs in.
StatusInputs ==
    Statuses
    \cup Keywords
    \cup { Shout(k) : k \in Keywords }
    \cup { Capitalized(k) : k \in Keywords }
    \cup { k1 \o <<32>> \o k2 : k1 \in Keywords, k2 \in Keywords }
    \cup { <<>>, OnHold }

\* One fetched ticket of any of these statuses.
StatusInit ==
    /\ \E status \in StatusInputs :
          StartState(<<Ticket(1, status)>>, StatusGroupsNew, 0, None)
    /\ pc = "fetched"

\* get_status_priority(&ticket.status), as the sort of from_tickets calls it.
CallGetStatusPriority ==
    /\ pc = "fetched"
    /\ ranked' = [ranked EXCEPT
                     !.status = tickets_in[1].status,
                     !.result = get_status_priority(tickets_in[1].status)]
    /\ pc' = "ranked"
    /\ UNCHANGED <<board_vars, app_vars, time_vars, frame, in_flight, polled,
                   lookup, nav_start, trail>>

\* get_status_emoji(status), for the status just ranked.
CallGetStatusEmoji ==
    /\ pc = "ranked"
    /\ ranked' = [ranked EXCEPT !.emoji = get_status_emoji(ranked.status)]
    /\ pc' = "emoji"
    /\ UNCHANGED <<board_vars, app_vars, time_vars, frame, in_flight, polled,
                   lookup, nav_start, trail>>

\* get_status_color(status), for the same status.
CallGetStatusColor ==
    /\ pc = "emoji"
    /\ ranked' = [ranked EXCEPT !.color = get_status_color(ranked.status)]
    /\ pc' = "styled"
    /\ UNCHANGED <<board_vars, app_vars, time_vars, frame, in_flight, polled,
                   lookup, nav_start, trail>>

StatusNext ==
    \/ CallGetStatusPriority
    \/ CallGetStatusEmoji
    \/ CallGetStatusColor

SpecStatus == StatusInit /\ [][StatusNext]_vars

\* ------------------------------------------------------------------------
\* The detail view (ui.rs draw_ticket_detail)
\* ------------------------------------------------------------------------

\* The position of the first '\n' (10) of s, 0 when there is none.
RECURSIVE newline_at(_, _)
newline_at(s, i) ==
    IF i > Len(s) THEN 0
    ELSE IF s[i] = 10 THEN i
    ELSE newline_at(s, i + 1)

\* A line without its trailing '\r' (13).
strip_cr(l) ==
    IF l # <<>> /\ l[Len(l)] = 13 THEN SubSeq(l, 1, Len(l) - 1) ELSE l

\* str::lines: the text split at every '\n'; a final empty line is not a
\* line, so "" has no lines and "a\n" has one.
RECURSIVE lines(_)
lines(s) ==
    IF s = <<>> THEN <<>>
    ELSE LET n == newline_at(s, 1) IN
         IF n = 0 THEN <<s>>
         ELSE <<strip_cr(SubSeq(s, 1, n - 1))>> \o lines(SubSeq(s, n + 1, Len(s)))

\* The three lines pushed for each comment.
RECURSIVE comment_lines(_)
comment_lines(comments) ==
    IF comments = <<>> THEN <<>>
    ELSE <<[kind |-> "blank", text |-> <<>>],
           [kind |-> "comment_by", text |-> comments[1].author],
           [kind |-> "comment_body", text |-> comments[1].body]>>
         \o comment_lines(Tail(comments))

\* The line list draw_ticket_detail builds for a ticket.
detail_lines(ticket) ==
    <<[kind |-> "status", text |-> ticket.status],
      [kind |-> "blank", text |-> <<>>]>>
    \o (IF ticket.priority # None
        THEN <<[kind |-> "priority", text |-> ticket.priority[1]]>> ELSE <<>>)
    \o (IF ticket.reporter # None
        THEN <<[kind |-> "reporter", text |-> ticket.reporter[1]]>> ELSE <<>>)
    \o (IF ticket.created # None \/ ticket.updated # None
        THEN <<[kind |-> "dates", text |-> <<>>]>> ELSE <<>>)
    \o (IF ticket.labels # None /\ ticket.labels[1] # <<>>
        THEN <<[kind |-> "labels", text |-> <<>>]>> ELSE <<>>)
    \o <<[kind |-> "blank", text |-> <<>>],
         [kind |-> "heading", text |-> <<>>]>>
    \o (IF ticket.description # None
        THEN LET d == lines(ticket.description[1]) IN
             [i \in 1..Len(d) |-> [kind |-> "description", text |-> d[i]]]
        ELSE <<[kind |-> "placeholder", text |-> <<>>],
               [kind |-> "blank", text |-> <<>>],
               [kind |-> "hint", text |-> <<>>]>>)
    \o (IF ticket.comments # None
        THEN <<[kind |-> "blank", text |-> <<>>],
               [kind |-> "comments", text |-> <<>>]>>
             \o comment_lines(ticket.comments[1])
        ELSE <<>>)

\* usize::saturating_sub
saturating_sub(a, b) == IF a >= b THEN a - b ELSE 0

\* usize::min
min(a, b) == IF a <= b THEN a ELSE b

\* Layout [Length(3), Min(0), Length(1)] of a terminal of the given height
\* (at least 4 rows): the height of the content chunk.
HeaderHeight == 3

FooterHeight == 1

content_height(height) == height - HeaderHeight - FooterHeight

\* skip_take that takes from the top of the list whatever the offset.
skip_take_from_top(ls, n, k) ==
    [i \in 1..min(k, Len(ls)) |-> ls[i]]

\* lines.into_iter().skip(n).take(k)
skip_take(ls, n, k) ==
    LET from == min(n, Len(ls))
        count == min(k, Len(ls) - from)
    IN [i \in 1..count |-> ls[from + i]]

\* The scroll bound draw_ticket_detail derives for the viewport.
max_scroll_of(total_lines, visible_lines) ==
    saturating_sub(total_lines, visible_lines)

\* The clamp of the scroll offset in draw_ticket_detail.
clamp_scroll(scroll, max_scroll) == min(scroll, max_scroll)

\* ------------------------------------------------------------------------
\* Navigation and scrolling arithmetic (main.rs run_app)
\* ------------------------------------------------------------------------

\* move_up without the wrap to the last ticket.
move_up_no_wrap(index, total) ==
    IF index > 0 THEN index - 1 ELSE index

\* The Up key in Board mode.
move_up(index, total) ==
    IF index > 0 THEN index - 1
    ELSE IF total > 0 THEN total - 1
    ELSE index

\* move_down without the modulo.
move_down_no_wrap(index, total) ==
    IF total > 0 THEN index + 1 ELSE index

\* The Down key in Board mode.
move_down(index, total) ==
    IF total > 0 THEN (index + 1) % total ELSE index

\* The scroll step of PageUp and PageDown.
PageStep == 10

\* The Up key in Detail mode.
scroll_up(scroll) == IF scroll > 0 THEN scroll - 1 ELSE scroll

\* The Down key in Detail mode.
scroll_down(scroll, max_scroll) ==
    IF scroll < max_scroll THEN scroll + 1 ELSE scroll

\* The PageUp key.
page_up(scroll) == saturating_sub(scroll, PageStep)

\* page_down without the clamp.
page_down_unclamped(scroll, max_scroll) == scroll + PageStep

\* The PageDown key.
page_down(scroll, max_scroll) == min(scroll + PageStep, max_scroll)


\* ------------------------------------------------------------------------
\* The environment: what fetches return and how tall the terminal is
\* ------------------------------------------------------------------------

\* "[Error fetching details]\n\n"
ErrorPrefix ==
    <<91, 69, 114, 114, 111, 114, 32, 102, 101, 116, 99, 104, 105, 110, 103,
      32, 100, 101, 116, 97, 105, 108, 115, 93, 10, 10>>

\* "JIRA URL not configured"
UrlError ==
    <<74, 73, 82, 65, 32, 85, 82, 76, 32, 110, 111, 116, 32, 99, 111, 110,
      102, 105, 103, 117, 114, 101, 100>>

\* "High"
High ==
    <<72, 105, 103, 104>>

\* "jake"
Jake ==
    <<106, 97, 107, 101>>

\* "2024-01-01"
Date ==
    <<50, 48, 50, 52, 45, 48, 49, 45, 48, 49>>

\* "ok"
OkBody ==
    <<111, 107>>

\* "a\nb"
TwoLines ==
    <<97, 10, 98>>

\* A text of n lines "a\n".
RECURSIVE text_of_lines(_)
text_of_lines(n) == IF n = 0 THEN <<>> ELSE <<97, 10>> \o text_of_lines(n - 1)

\* The longest description a detail fetch returns, in lines.
MaxLines == 12

\* The ticket fetch_ticket_details builds for a board ticket: the same key,
\* status and summary, with the extended fields the response carried.
FullTicket(ticket, description, extras, comments) ==
    [ticket EXCEPT
        !.description = description,
        !.priority = IF extras THEN Some(High) ELSE None,
        !.reporter = IF extras THEN Some(Jake) ELSE None,
        !.created = IF extras THEN Some(Date) ELSE None,
        !.updated = IF extras THEN Some(Date) ELSE None,
        !.labels = IF extras THEN Some(<<OkBody>>) ELSE None,
        !.comments = comments]

Failure(e) == [ok |-> FALSE, error |-> e]

Success(v) == [ok |-> TRUE, value |-> v]

\* A detail response: a failure, or the extended fields of a success.
FailedResponse(e) == [ok |-> FALSE, error |-> e]

FullResponse(description, extras, comments) ==
    [ok |-> TRUE, description |-> description, extras |-> extras,
     comments |-> comments]

\* One comment.
AComment == [author |-> Jake, created |-> Date, body |-> OkBody]

\* fetch_ticket_details for a board ticket, given the response.
fetch_ticket_details(ticket, response) ==
    IF response.ok
    THEN Success(FullTicket(ticket, response.description, response.extras,
                            response.comments))
    ELSE Failure(response.error)

\* The detail responses in the run loop.
LoopResponses ==
    { FailedResponse(UrlError), FullResponse(Some(TwoLines), FALSE, None) }

\* The detail responses when the detail view is exercised: every shape of
\* description and comments, up to MaxLines lines.
AllResponses ==
    { FailedResponse(UrlError) }
    \cup { FullResponse(d, x, c) :
             d \in {None, Some(<<>>), Some(TwoLines),
                    Some(text_of_lines(MaxLines))},
             x \in BOOLEAN,
             c \in {None, Some(<<>>), Some(<<AComment>>)} }

\* The statuses of the tickets the run loop fetches.
LoopStatuses == {ToDo, Done}

\* The longest ticket list a fetch returns in the run loop.
MaxFetch == 2

\* The ticket lists fetch_tickets returns in the run loop.
LoopLists == TicketLists(LoopStatuses, MaxFetch)

\* What fetch_tickets can return in the run loop.
FetchOutcomes ==
    { Failure(UrlError) } \cup { Success(t) : t \in LoopLists }

\* The terminal heights frame.area() reports: a viewport of no rows, of a
\* few rows and of more rows than any ticket has lines.
TermHeights == {4, 8, 30}

\* The terminal height in the run loop.
LoopHeights == {6}

\* refresh_seconds, the --refresh argument.
RefreshSeconds == 1

\* The clock stops here.
MaxTime == 2

\* ------------------------------------------------------------------------
\* The run loop (main.rs run_app)
\* ------------------------------------------------------------------------

\* The state run_app starts in, after main fetched and grouped the tickets.
Init ==
    /\ \E t \in LoopLists : StartState(t, from_tickets(t), 0, None)
    /\ pc = "draw"

\* ui.rs draw_ticket_detail: the state it writes and what it shows.
draw_ticket_detail(height) ==
    LET ls == detail_lines(detail_ticket[1])
        visible_lines == content_height(height)
        total_lines == Len(ls)
        max_scroll == max_scroll_of(total_lines, visible_lines)
        actual_scroll == clamp_scroll(detail_scroll, max_scroll)
    IN /\ detail_max_scroll' = max_scroll
       /\ detail_scroll' = actual_scroll
       /\ frame' = [view |-> "detail",
                    visible_lines |-> visible_lines,
                    total_lines |-> total_lines,
                    content |-> skip_take(ls, actual_scroll, visible_lines)]

\* terminal.draw(|f| draw_ui(...)) at the top of the loop, on a terminal
\* of one of the given heights.
Draw(heights) ==
    /\ pc = "draw"
    /\ \E height \in heights :
          IF mode = "Detail"
          THEN IF detail_ticket # None
               THEN draw_ticket_detail(height)
               ELSE /\ frame' = [view |-> "blank"]
                    /\ UNCHANGED <<detail_scroll, detail_max_scroll>>
          ELSE /\ frame' = [view |-> "board"]
               /\ UNCHANGED <<detail_scroll, detail_max_scroll>>
    /\ polled' = "none"
    /\ pc' = "poll"
    /\ UNCHANGED <<board_vars, mode, selected_index, detail_ticket,
                   time_vars, in_flight, log_vars>>

\* last_refresh.elapsed()
elapsed(at) == at - last_refresh

\* The poll timeout in whole seconds; the 100 ms of a paused loop is less
\* than one.
timeout ==
    IF paused THEN 0
    ELSE IF elapsed(now) >= RefreshSeconds THEN 0
    ELSE RefreshSeconds - elapsed(now)

\* The seconds the clock can advance over one poll: the timeout, or the
\* second a 100 ms wait may cross.
poll_ticks == IF paused THEN 1 ELSE timeout

\* The key codes event::read() gives, with 'x' for the keys no arm names.
QuitKeys == {"q", "Esc"}

UpKeys == {"Up", "k"}

DownKeys == {"Down", "j"}

Keys ==
    QuitKeys \cup UpKeys \cup DownKeys
    \cup {"r", "p", "Enter", "PageUp", "PageDown", "x"}

\* The keys that fall to the `_ => {}` arm of each mode.
BoardOtherKeys ==
    Keys \ (QuitKeys \cup {"r", "p"} \cup UpKeys \cup DownKeys \cup {"Enter"})

DetailOtherKeys ==
    Keys \ (QuitKeys \cup UpKeys \cup DownKeys \cup {"PageUp", "PageDown"})

\* KeyEvent that also reads keys while the loop waits in a fetch.
KeyEventDuringFetch(in_mode, keys) ==
    /\ pc \in {"poll", "fetch"}
    /\ mode = in_mode
    /\ \E d \in 0..poll_ticks :
          /\ now + d <= MaxTime
          /\ now' = now + d
    /\ \E key \in keys : polled' = key

\* event::poll(timeout) returned true and event::read() gave one of the
\* given keys.
KeyEvent(in_mode, keys) ==
    /\ pc = "poll"
    /\ mode = in_mode
    /\ \E d \in 0..poll_ticks :
          /\ now + d <= MaxTime
          /\ now' = now + d
    /\ \E key \in keys : polled' = key

\* The Ok arm of both refreshes.
refresh_ok(tickets) ==
    /\ tickets_in' = tickets
    /\ columns' = from_tickets(tickets)
    /\ last_update_time' = now'
    /\ last_refresh' = now'

\* Board mode: 'q' or Esc returns from run_app.
BoardKeyQuit ==
    /\ KeyEvent("Board", QuitKeys)
    /\ pc' = "exit"
    /\ UNCHANGED <<board_vars, app_vars, paused, last_refresh,
                   last_update_time, frame, in_flight, log_vars>>

\* The longest a fetch takes, in seconds.
FetchSeconds == 1

\* The three fetch calls of the loop: fetch_tickets for the 'r' key and for
\* the automatic refresh, fetch_ticket_details for the Enter key.
ManualFetch == [kind |-> "tickets", caller |-> "r", key |-> <<>>]

AutoFetch == [kind |-> "tickets", caller |-> "auto", key |-> <<>>]

DetailsFetch(key) == [kind |-> "details", caller |-> "enter", key |-> key]

\* A blocking fetch call is made: the loop waits in it.
Call(fetch) ==
    /\ in_flight' = in_flight \cup {fetch}
    /\ pc' = "fetch"

\* The fetch call the loop waits in returns, some seconds after it was made,
\* and the rest of its match arm runs.
Return(fetch) ==
    /\ pc = "fetch"
    /\ fetch \in in_flight
    /\ in_flight' = in_flight \ {fetch}
    /\ \E d \in 0..FetchSeconds :
          /\ now + d <= MaxTime
          /\ now' = now + d
    /\ pc' = "draw"
    /\ UNCHANGED polled

\* BoardKeyRefresh that answers 'r' in Detail mode as well.
AnyModeKeyRefresh ==
    /\ KeyEvent(mode, {"r"})
    /\ Call(ManualFetch)
    /\ UNCHANGED <<board_vars, app_vars, paused, last_refresh,
                   last_update_time, frame, log_vars>>

\* Board mode: 'r', the manual refresh, calls fetch_tickets.
BoardKeyRefresh ==
    /\ KeyEvent("Board", {"r"})
    /\ Call(ManualFetch)
    /\ UNCHANGED <<board_vars, app_vars, paused, last_refresh,
                   last_update_time, frame, log_vars>>

\* manual_refresh_arm whose Err arm stamps the last-update time.
manual_refresh_arm_stamps_error(r) ==
    IF r.ok
    THEN refresh_ok(r.value)
    ELSE /\ last_update_time' = now'
         /\ UNCHANGED <<board_vars, last_refresh>>

\* The match on the Result of the manual refresh's fetch_tickets: the Err
\* arm only prints the error.
manual_refresh_arm(r) ==
    IF r.ok
    THEN refresh_ok(r.value)
    ELSE UNCHANGED <<board_vars, last_update_time, last_refresh>>

\* The manual refresh's fetch_tickets returns r.
ManualRefreshReturn(r) ==
    /\ Return(ManualFetch)
    /\ manual_refresh_arm(r)
    /\ UNCHANGED <<app_vars, paused, frame, log_vars>>

\* The manual refresh's fetch_tickets returns.
ManualRefreshReturns == \E r \in FetchOutcomes : ManualRefreshReturn(r)

\* Board mode: 'p' toggles the pause flag.
BoardKeyPause ==
    /\ KeyEvent("Board", {"p"})
    /\ paused' = ~paused
    /\ pc' = "draw"
    /\ UNCHANGED <<board_vars, app_vars, last_refresh, last_update_time,
                   frame, in_flight, log_vars>>

\* The longest key log kept.
MaxMoves == 4

\* The key log, when one is kept: the key and the index it led to.
LogKey(key) ==
    /\ nav_start # None => Len(trail) < MaxMoves
    /\ trail' = IF nav_start # None
                THEN Append(trail, [key |-> key, index |-> selected_index'])
                ELSE trail
    /\ UNCHANGED <<lookup, ranked, nav_start>>

\* Board mode: Up or 'k'.
BoardKeyUp ==
    /\ KeyEvent("Board", UpKeys)
    /\ selected_index' = move_up(selected_index, total_tickets(columns))
    /\ LogKey("Up")
    /\ pc' = "draw"
    /\ UNCHANGED <<board_vars, mode, detail_ticket, detail_scroll,
                   detail_max_scroll, paused, last_refresh, last_update_time,
                   frame, in_flight>>

\* Board mode: Down or 'j'.
BoardKeyDown ==
    /\ KeyEvent("Board", DownKeys)
    /\ selected_index' = move_down(selected_index, total_tickets(columns))
    /\ LogKey("Down")
    /\ pc' = "draw"
    /\ UNCHANGED <<board_vars, mode, detail_ticket, detail_scroll,
                   detail_max_scroll, paused, last_refresh, last_update_time,
                   frame, in_flight>>


\* detailed_ticket that leaves the error of a failed fetch out of the
\* ticket.
detailed_ticket_drops_error(ticket, outcome) ==
    IF outcome.ok THEN outcome.value ELSE ticket

\* The ticket the Enter arm stores for a board ticket without a description
\* and the outcome of its detail fetch.
detailed_ticket(ticket, outcome) ==
    IF outcome.ok
    THEN outcome.value
    ELSE [ticket EXCEPT !.description = Some(ErrorPrefix \o outcome.error)]

\* The end of the Enter arm: the detail view opens on the ticket.
open_detail(ticket) ==
    /\ detail_ticket' = Some(ticket)
    /\ detail_scroll' = 0
    /\ mode' = "Detail"

\* BoardKeyEnter that moves a selection that resolves to no ticket back to
\* the first ticket.
BoardKeyEnterResetsIndex ==
    /\ KeyEvent("Board", {"Enter"})
    /\ LET found == get_ticket_by_index(columns, selected_index) IN
       IF found = None
       THEN /\ pc' = "draw"
            /\ selected_index' = 0
            /\ UNCHANGED <<mode, detail_ticket, detail_scroll, in_flight>>
       ELSE IF found[1].description = None
            THEN /\ Call(DetailsFetch(found[1].key))
                 /\ UNCHANGED <<mode, detail_ticket, detail_scroll,
                                selected_index>>
            ELSE /\ open_detail(found[1])
                 /\ pc' = "draw"
                 /\ UNCHANGED <<in_flight, selected_index>>
    /\ UNCHANGED <<board_vars, detail_max_scroll, paused,
                   last_refresh, last_update_time, frame, log_vars>>

\* Board mode: Enter on a selection that resolves to a ticket calls
\* fetch_ticket_details when the ticket has no description, and opens the
\* detail view at once when it has one.
BoardKeyEnter ==
    /\ KeyEvent("Board", {"Enter"})
    /\ LET found == get_ticket_by_index(columns, selected_index) IN
       IF found = None
       THEN /\ pc' = "draw"
            /\ UNCHANGED <<mode, detail_ticket, detail_scroll, in_flight>>
       ELSE IF found[1].description = None
            THEN /\ Call(DetailsFetch(found[1].key))
                 /\ UNCHANGED <<mode, detail_ticket, detail_scroll>>
            ELSE /\ open_detail(found[1])
                 /\ pc' = "draw"
                 /\ UNCHANGED in_flight
    /\ UNCHANGED <<board_vars, selected_index, detail_max_scroll, paused,
                   last_refresh, last_update_time, frame, log_vars>>

\* fetch_ticket_details returns with one of the given responses, for the
\* ticket the Enter arm holds: the Ok and the Err arm, then the detail view
\* opens.
DetailsReturn(responses) ==
    /\ \E fetch \in in_flight :
          /\ fetch.kind = "details"
          /\ Return(fetch)
    /\ LET ticket == get_ticket_by_index(columns, selected_index)[1] IN
          \E response \in responses :
             open_detail(detailed_ticket(ticket,
                            fetch_ticket_details(ticket, response)))
    /\ UNCHANGED <<board_vars, selected_index, detail_max_scroll, paused,
                   last_refresh, last_update_time, frame, log_vars>>

\* Board mode: any other key.
BoardKeyOther ==
    /\ KeyEvent("Board", BoardOtherKeys)
    /\ pc' = "draw"
    /\ UNCHANGED <<board_vars, app_vars, paused, last_refresh,
                   last_update_time, frame, in_flight, log_vars>>

\* DetailKeyQuit that leaves the ticket of the detail view in place.
DetailKeyQuitKeepsTicket ==
    /\ KeyEvent("Detail", QuitKeys)
    /\ mode' = "Board"
    /\ pc' = "draw"
    /\ UNCHANGED <<board_vars, selected_index, detail_ticket, detail_scroll,
                   detail_max_scroll, paused, last_refresh, last_update_time,
                   frame, in_flight, log_vars>>

\* Detail mode: 'q' or Esc goes back to the board.
DetailKeyQuit ==
    /\ KeyEvent("Detail", QuitKeys)
    /\ mode' = "Board"
    /\ detail_ticket' = None
    /\ pc' = "draw"
    /\ UNCHANGED <<board_vars, selected_index, detail_scroll,
                   detail_max_scroll, paused, last_refresh, last_update_time,
                   frame, in_flight, log_vars>>

\* One of the given Detail mode keys, which only moves the scroll offset to
\* the given value.
DetailScrollTo(keys, scroll) ==
    /\ KeyEvent("Detail", keys)
    /\ detail_scroll' = scroll
    /\ pc' = "draw"
    /\ UNCHANGED <<board_vars, mode, selected_index, detail_ticket,
                   detail_max_scroll, paused, last_refresh, last_update_time,
                   frame, in_flight, log_vars>>

\* Detail mode: Up or 'k'.
DetailKeyUp == DetailScrollTo(UpKeys, scroll_up(detail_scroll))

\* Detail mode: Down or 'j'.
DetailKeyDown ==
    DetailScrollTo(DownKeys, scroll_down(detail_scroll, detail_max_scroll))

\* Detail mode: PageUp.
DetailKeyPageUp == DetailScrollTo({"PageUp"}, page_up(detail_scroll))

\* Detail mode: PageDown.
DetailKeyPageDown ==
    DetailScrollTo({"PageDown"}, page_down(detail_scroll, detail_max_scroll))

\* Detail mode: any other key.
DetailKeyOther ==
    /\ KeyEvent("Detail", DetailOtherKeys)
    /\ pc' = "draw"
    /\ UNCHANGED <<board_vars, app_vars, paused, last_refresh,
                   last_update_time, frame, in_flight, log_vars>>

\* event::poll returned true for an event that is not a key (a resize, the
\* mouse): nothing is matched and the loop draws again.
NonKeyEvent ==
    /\ pc = "poll"
    /\ \E d \in 0..poll_ticks :
          /\ now + d <= MaxTime
          /\ now' = now + d
    /\ polled' = "event"
    /\ pc' = "draw"
    /\ UNCHANGED <<board_vars, app_vars, paused, last_refresh,
                   last_update_time, frame, in_flight, log_vars>>

\* event::poll(timeout) returned false: the timeout passed with no event.
TimedOut ==
    /\ pc = "poll"
    /\ IF paused
       THEN \E d \in 0..1 : now + d <= MaxTime /\ now' = now + d
       ELSE now + timeout <= MaxTime /\ now' = now + timeout
    /\ polled' = "timeout"


\* AutoRefresh that does not look at the pause flag.
AutoRefreshIgnoresPause ==
    /\ TimedOut
    /\ elapsed(now') >= RefreshSeconds
    /\ Call(AutoFetch)
    /\ UNCHANGED <<board_vars, app_vars, paused, last_refresh,
                   last_update_time, frame, log_vars>>

\* The timeout branch with the refresh due: the automatic refresh calls
\* fetch_tickets.
AutoRefresh ==
    /\ TimedOut
    /\ ~paused /\ elapsed(now') >= RefreshSeconds
    /\ Call(AutoFetch)
    /\ UNCHANGED <<board_vars, app_vars, paused, last_refresh,
                   last_update_time, frame, log_vars>>

\* auto_refresh_arm whose Err arm only prints the error.
auto_refresh_arm_keeps_timer(r) ==
    IF r.ok
    THEN refresh_ok(r.value)
    ELSE UNCHANGED <<board_vars, last_update_time, last_refresh>>

\* The match on the Result of the automatic refresh's fetch_tickets: the
\* Err arm prints the error and resets the timer.
auto_refresh_arm(r) ==
    IF r.ok
    THEN refresh_ok(r.value)
    ELSE /\ last_refresh' = now'
         /\ UNCHANGED <<board_vars, last_update_time>>

\* AutoRefreshReturn that closes the detail view.
AutoRefreshReturnClosesDetail(r) ==
    /\ Return(AutoFetch)
    /\ auto_refresh_arm(r)
    /\ mode' = "Board"
    /\ detail_ticket' = None
    /\ UNCHANGED <<selected_index, detail_scroll, detail_max_scroll, paused,
                   frame, log_vars>>

\* The automatic refresh's fetch_tickets returns r.
AutoRefreshReturn(r) ==
    /\ Return(AutoFetch)
    /\ auto_refresh_arm(r)
    /\ UNCHANGED <<app_vars, paused, frame, log_vars>>

\* The automatic refresh's fetch_tickets returns.
AutoRefreshReturns == \E r \in FetchOutcomes : AutoRefreshReturn(r)


\* The timeout branch with nothing to do.
IdleTimeout ==
    /\ TimedOut
    /\ ~(~paused /\ elapsed(now') >= RefreshSeconds)
    /\ pc' = "draw"
    /\ UNCHANGED <<board_vars, app_vars, paused, last_refresh,
                   last_update_time, frame, in_flight, log_vars>>

\* terminal.draw(...)? returns an error: run_app returns it.
DrawFails ==
    /\ pc = "draw"
    /\ pc' = "failed"
    /\ UNCHANGED <<board_vars, app_vars, time_vars, frame, in_flight, polled,
                   log_vars>>

\* event::poll(timeout)? or event::read()? returns an error: run_app
\* returns it.
EventFails ==
    /\ pc = "poll"
    /\ pc' = "failed"
    /\ UNCHANGED <<board_vars, app_vars, time_vars, frame, in_flight, polled,
                   log_vars>>

Next ==
    \/ Draw(LoopHeights)
    \/ BoardKeyQuit
    \/ BoardKeyRefresh
    \/ ManualRefreshReturns
    \/ BoardKeyPause
    \/ BoardKeyUp
    \/ BoardKeyDown
    \/ BoardKeyEnter
    \/ DetailsReturn(LoopResponses)
    \/ BoardKeyOther
    \/ DetailKeyQuit
    \/ DetailKeyUp
    \/ DetailKeyDown
    \/ DetailKeyPageUp
    \/ DetailKeyPageDown
    \/ DetailKeyOther
    \/ NonKeyEvent
    \/ AutoRefresh
    \/ AutoRefreshReturns
    \/ IdleTimeout
    \/ DrawFails
    \/ EventFails

Spec == Init /\ [][Next]_vars

\* ------------------------------------------------------------------------
\* Navigation on a fixed board, with the keys logged
\* ------------------------------------------------------------------------

\* The statuses of the boards navigated.
NavStatuses == {ToDo, Done, Blocked}

\* A board of any fetched list, the selection at any of its indexes.
NavInit ==
    /\ \E t \in TicketLists(NavStatuses, MaxTickets) :
          \E i \in 0..(IF t = <<>> THEN 0 ELSE Len(t) - 1) :
             StartState(t, from_tickets(t), i, Some(i))
    /\ pc = "draw"

NavNext ==
    \/ Draw(LoopHeights)
    \/ BoardKeyUp /\ now' = now
    \/ BoardKeyDown /\ now' = now

SpecNav == NavInit /\ [][NavNext]_vars

\* ------------------------------------------------------------------------
\* The detail view under every shape of ticket and terminal height
\* ------------------------------------------------------------------------

\* A board ticket that already carries a description.
Described(ticket) == [ticket EXCEPT !.description = Some(TwoLines)]

\* Boards of tickets without a description, and boards whose first ticket
\* has one.
DetailInit ==
    /\ \E t \in TicketLists({ToDo}, MaxFetch) :
          \E described \in BOOLEAN :
             LET tickets == IF described /\ t # <<>>
                            THEN <<Described(t[1])>> \o Tail(t)
                            ELSE t
             IN StartState(tickets, from_tickets(tickets), 0, None)
    /\ pc = "draw"

DetailNext ==
    \/ Draw(TermHeights)
    \/ BoardKeyDown /\ now' = now
    \/ BoardKeyEnter /\ now' = now
    \/ DetailsReturn(AllResponses) /\ now' = now
    \/ DetailKeyQuit /\ now' = now
    \/ DetailKeyUp /\ now' = now
    \/ DetailKeyDown /\ now' = now
    \/ DetailKeyPageUp /\ now' = now
    \/ DetailKeyPageDown /\ now' = now
    \/ NonKeyEvent /\ now' = now

SpecDetail == DetailInit /\ [][DetailNext]_vars


\* ------------------------------------------------------------------------
\* The run loop while no key arrives
\* ------------------------------------------------------------------------

\* The loop about to draw its first frame.
IdleInit ==
    /\ \E t \in LoopLists : StartState(t, from_tickets(t), 0, None)
    /\ pc = "draw"

\* The pause flag is toggled once, before the keys stop.
IdleKeyPause ==
    /\ now = 0
    /\ BoardKeyPause

\* No key arrives after the pause key: the terminal still sends the events
\* that are not keys (EnableMouseCapture, resizes).
IdleNext ==
    \/ Draw(LoopHeights)
    \/ IdleKeyPause
    \/ NonKeyEvent
    \/ AutoRefresh
    \/ AutoRefreshReturns
    \/ IdleTimeout

\* The loop is one thread that never waits longer than its poll timeout and
\* its blocking fetch: it always takes its next step.
SpecIdle == IdleInit /\ [][IdleNext]_vars /\ WF_vars(IdleNext)

\* ------------------------------------------------------------------------
\* One lane of the board (ui.rs, draw_lane)
\* ------------------------------------------------------------------------

\* The width in bytes of one code point in UTF-8.
len_utf8(c) ==
    IF c < 128 THEN 1
    ELSE IF c < 2048 THEN 2
    ELSE IF c < 65536 THEN 3
    ELSE 4

\* str::len, the length of a string in bytes.
RECURSIVE len(_)
len(s) ==
    IF s = <<>> THEN 0 ELSE len_utf8(Head(s)) + len(Tail(s))

\* char::is_whitespace.
is_whitespace(c) ==
    \/ c \in 9..13
    \/ c \in {32, 133, 160, 5760, 8232, 8233, 8239, 8287, 12288}
    \/ c \in 8192..8202

\* str::trim.
RECURSIVE trim_start(_)
trim_start(s) ==
    IF s # <<>> /\ is_whitespace(Head(s)) THEN trim_start(Tail(s)) ELSE s

RECURSIVE trim_end(_)
trim_end(s) ==
    IF s # <<>> /\ is_whitespace(s[Len(s)])
    THEN trim_end(SubSeq(s, 1, Len(s) - 1))
    ELSE s

trim(s) == trim_end(trim_start(s))

\* str::split_whitespace, collected: the maximal runs of characters that are
\* not whitespace, in order.  word is the run being read.
RECURSIVE split_words(_, _)
split_words(s, word) ==
    IF s = <<>> THEN (IF word = <<>> THEN <<>> ELSE <<word>>)
    ELSE IF is_whitespace(Head(s))
         THEN (IF word = <<>> THEN <<>> ELSE <<word>>)
              \o split_words(Tail(s), <<>>)
         ELSE split_words(Tail(s), Append(word, Head(s)))

split_whitespace(s) == split_words(s, <<>>)

\* TicketType::emoji.
emoji(ticket_type) ==
    CASE ticket_type = "Bug" -> <<128027>>
      [] ticket_type = "Story" -> <<128214>>
      [] ticket_type = "Task" -> <<10003>>
      [] ticket_type = "Epic" -> <<127919>>

\* ticket.assignee.split('@').next(): the text before the first '@'.
RECURSIVE before_at(_)
before_at(s) ==
    IF s = <<>> \/ Head(s) = 64 THEN <<>> ELSE <<Head(s)>> \o before_at(Tail(s))

assignee_name(ticket) == trim(before_at(ticket.assignee))

has_assignee(ticket) ==
    assignee_name(ticket) # <<>> /\ assignee_name(ticket) # Unassigned

\* The prefix string of a ticket, built only to be measured.
prefix(ticket) ==
    IF has_assignee(ticket)
    THEN emoji(ticket.ticket_type) \o <<32>> \o ticket.key \o <<32, 64>>
         \o assignee_name(ticket) \o <<32>>
    ELSE emoji(ticket.ticket_type) \o <<32>> \o ticket.key \o <<32>>

SeparatorLen == 3

prefix_len(ticket) == len(prefix(ticket)) + SeparatorLen

available_for_summary(content_width, ticket) ==
    saturating_sub(content_width, prefix_len(ticket))

\* The width of usize in the model.  TLC's integers have 32 bits, so the
\* model's usize has 30; a wrapped difference is 2^30 - 1 or just below, far
\* above every length here, as 2^64 - 1 is.
UsizeBits == 30

\* a - b on usize.  A negative difference panics in a build with overflow
\* checks and wraps in one without; checked says which build runs.
usize_sub(a, b, checked) ==
    [ underflow |-> a < b,
      panic     |-> a < b /\ checked,
      value     |-> (a - b) % (2 ^ UsizeBits) ]

Indent == 4

\* One turn of the wrap loop, for one word.  room is content_width - 4,
\* which the code evaluates only for a word that does not fit the first
\* line while the second line is not empty.
wrap_word(acc, word, available, room) ==
    IF acc.current_len + len(word) + 1 <= available
    THEN [acc EXCEPT
            !.first_line = IF acc.first_line = <<>> THEN word
                           ELSE acc.first_line \o <<32>> \o word,
            !.current_len = IF acc.first_line = <<>>
                            THEN acc.current_len + len(word)
                            ELSE acc.current_len + 1 + len(word)]
    ELSE IF acc.second_line = <<>>
    THEN [acc EXCEPT !.second_line = word]
    ELSE IF room.panic
    THEN [acc EXCEPT !.panic = TRUE, !.underflow = TRUE]
    ELSE IF len(acc.second_line) + len(word) + 1 <= room.value
    THEN [acc EXCEPT !.second_line = acc.second_line \o <<32>> \o word,
                     !.underflow = acc.underflow \/ room.underflow]
    ELSE [acc EXCEPT !.underflow = acc.underflow \/ room.underflow]

\* The wrap loop over the words of a summary that does not fit.  acc holds
\* first_line, second_line and current_len, and what became of the
\* subtractions.
RECURSIVE wrap_words(_, _, _, _, _)
wrap_words(words, acc, available, content_width, checked) ==
    IF words = <<>> \/ acc.panic THEN acc
    ELSE wrap_words(Tail(words),
                    wrap_word(acc, Head(words), available,
                              usize_sub(content_width, Indent, checked)),
                    available, content_width, checked)

WrapStart ==
    [ first_line |-> <<>>, second_line |-> <<>>, current_len |-> 0,
      panic |-> FALSE, underflow |-> FALSE ]

\* A line is a record.  The main line of a ticket carries the selection
\* marker and the summary text shown on it.
main_line(i, is_selected, text) ==
    [ kind |-> "ticket", ticket |-> i, selected |-> is_selected,
      text |-> text ]

continuation_line(i, text) ==
    [ kind |-> "continuation", ticket |-> i, selected |-> FALSE,
      text |-> text ]

\* The lines of a wrapped ticket: the main line, and the continuation line
\* when the wrap left text for it.
wrapped_lines(wrapped, i, is_selected) ==
    [ lines |-> IF wrapped.second_line = <<>>
                THEN <<main_line(i, is_selected, wrapped.first_line)>>
                ELSE << main_line(i, is_selected, wrapped.first_line),
                        continuation_line(i, wrapped.second_line) >>,
      panic |-> wrapped.panic,
      underflow |-> wrapped.underflow ]

\* The lines of one ticket.
ticket_lines(ticket, i, is_selected, content_width, checked) ==
    IF len(ticket.summary) <= available_for_summary(content_width, ticket)
    THEN [ lines |-> <<main_line(i, is_selected, ticket.summary)>>,
           panic |-> FALSE, underflow |-> FALSE ]
    ELSE wrapped_lines(
             wrap_words(split_whitespace(ticket.summary), WrapStart,
                        available_for_summary(content_width, ticket),
                        content_width, checked),
             i, is_selected)

\* The separator before the ticket at offset i; limit is area.height - 1.
add_separator(acc, i, limit) ==
    IF i = 0 THEN acc
    ELSE IF limit.panic
    THEN [acc EXCEPT !.panic = TRUE, !.underflow = TRUE]
    ELSE [acc EXCEPT
            !.lines = IF Len(acc.lines) < limit.value
                      THEN Append(acc.lines, [kind |-> "separator"])
                      ELSE acc.lines,
            !.underflow = acc.underflow \/ limit.underflow]

\* The lines of a ticket pushed, with no look at the height.
add_ticket(acc, drawn) ==
    IF acc.panic THEN acc
    ELSE [acc EXCEPT !.lines = acc.lines \o drawn.lines,
                     !.panic = drawn.panic,
                     !.underflow = acc.underflow \/ drawn.underflow]

\* The break at the end of an iteration.
stop_at_height(acc, limit) ==
    IF acc.panic THEN acc
    ELSE IF limit.panic
    THEN [acc EXCEPT !.panic = TRUE, !.underflow = TRUE]
    ELSE [acc EXCEPT !.stopped = Len(acc.lines) >= limit.value,
                     !.underflow = acc.underflow \/ limit.underflow]

\* The loop of draw_lane over the tickets from the one at offset i on.  acc
\* holds the lines built so far, whether the loop has left through break,
\* and what became of the subtractions.
RECURSIVE lane_loop(_, _, _, _, _, _, _)
lane_loop(tickets, i, acc, height, content_width, selected_ticket, checked) ==
    IF i >= Len(tickets) \/ acc.panic \/ acc.stopped THEN acc
    ELSE lane_loop(
             tickets, i + 1,
             stop_at_height(
                 add_ticket(
                     add_separator(acc, i, usize_sub(height, 1, checked)),
                     ticket_lines(tickets[i + 1], i, selected_ticket = Some(i),
                                  content_width, checked)),
                 usize_sub(height, 1, checked)),
             height, content_width, selected_ticket, checked)

\* tickets.iter().take_while(|_| lines.len() < area.height as usize - 1)
\* .count(): the closure does not look at the ticket, so the count is all
\* the tickets or none; with no ticket the closure is never called.
take_while_count(tickets, built, limit) ==
    IF tickets # <<>> /\ Len(built) < limit.value THEN Len(tickets) ELSE 0

\* The overflow indicator, appended to the lines the loop built.
overflow_indicator(tickets, acc, limit) ==
    IF acc.panic \/ tickets = <<>> THEN acc
    ELSE IF limit.panic
    THEN [acc EXCEPT !.panic = TRUE, !.underflow = TRUE]
    ELSE [acc EXCEPT
            !.lines =
                IF Len(tickets) > take_while_count(tickets, acc.lines, limit)
                THEN Append(acc.lines,
                            [ kind |-> "overflow",
                              remaining |->
                                  Len(tickets)
                                  - take_while_count(tickets, acc.lines,
                                                     limit) ])
                ELSE acc.lines,
            !.underflow = acc.underflow \/ limit.underflow]

LabelWidth == 12

\* The width of chunks[1]: what Length(12) leaves of the lane's width.
content_width_of(width) == saturating_sub(width, LabelWidth)

LaneStart ==
    [ lines |-> <<>>, stopped |-> FALSE, panic |-> FALSE,
      underflow |-> FALSE ]

\* What the caller sees of a lane: a panic leaves no lines.
lane_result(acc) ==
    [ lines |-> IF acc.panic THEN <<>> ELSE acc.lines,
      panic |-> acc.panic,
      underflow |-> acc.underflow ]

\* draw_lane: the lines handed to the Paragraph of the content column, or a
\* panic.
draw_lane(area, tickets, selected_ticket, checked) ==
    lane_result(
        overflow_indicator(
            tickets,
            lane_loop(tickets, 0, LaneStart, area.height,
                      content_width_of(area.width), selected_ticket, checked),
            usize_sub(area.height, 1, checked)))

\* "Fix  login", with two spaces.
TwoSpaces ==
    <<70, 105, 120, 32, 32, 108, 111, 103, 105, 110>>

\* "Refactoring"
OneWord ==
    <<82, 101, 102, 97, 99, 116, 111, 114, 105, 110, 103>>

\* "Fix café": eight characters, nine bytes.
Accented ==
    <<70, 105, 120, 32, 99, 97, 102, 233>>

\* "jake@x.io"
JakeMail ==
    <<106, 97, 107, 101, 64, 120, 46, 105, 111>>

\* "UI refactoring 2": a long word between two short ones.
LongMiddle ==
    <<85, 73, 32, 114, 101, 102, 97, 99, 116, 111, 114, 105, 110, 103, 32, 50>>

Summaries == {SummaryText, TwoSpaces, OneWord, Accented, LongMiddle, <<>>}

\* The tickets a lane is drawn with: the board's ticket with each summary,
\* and one with an assignee.  A lane that is drawn has at least one ticket
\* (ui.rs 75-86).
LaneTickets(n) ==
    { [Ticket(n, ToDo) EXCEPT !.summary = s] : s \in Summaries }
    \cup { [Ticket(n, ToDo) EXCEPT !.assignee = JakeMail] }

MaxLane == 2

LaneLists ==
    UNION { { t \in [1..n -> UNION { LaneTickets(i) : i \in 1..n }] :
                \A i \in 1..n : t[i] \in LaneTickets(i) }
            : n \in 1..MaxLane }

\* Lane areas: widths that leave the content column 0, 3, 8, 19, 20 and 26
\* cells, and heights from none to room for every ticket.
LaneWidths == {5, 15, 20, 31, 32, 38}

LaneHeights == {0, 1, 2, 3, 6}

LaneInit ==
    /\ \E t \in LaneLists : StartState(t, StatusGroupsNew, 0, None)
    /\ pc = "lane"

\* draw_lane(frame, area, tickets, title, color, selected_ticket): one call,
\* for an area and a selection of the caller, in either build.
CallDrawLane ==
    /\ pc = "lane"
    /\ \E width \in LaneWidths, height \in LaneHeights,
          selected_ticket \in {None} \cup { Some(i) : i \in 0..1 },
          checked \in BOOLEAN :
          LET area == [width |-> width, height |-> height]
              drawn == draw_lane(area, tickets_in, selected_ticket, checked)
          IN  frame' = [ view |-> "lane", area |-> area,
                         selected_ticket |-> selected_ticket,
                         checked |-> checked,
                         lines |-> drawn.lines,
                         panic |-> drawn.panic,
                         underflow |-> drawn.underflow ]
    /\ pc' = "drawn"
    /\ UNCHANGED <<board_vars, app_vars, time_vars, in_flight, polled,
                   log_vars>>

LaneNext == CallDrawLane

SpecLane == LaneInit /\ [][LaneNext]_vars

\* ------------------------------------------------------------------------
\* The board (ui.rs, draw_horizontal_lanes)
\* ------------------------------------------------------------------------

\* The lane a status belongs to.  The renderer reads the four lanes from
\* the fields todo, in_progress, review and done of the board; a status goes
\* by its bucket, and one of no bucket to the to-do lane.
lane_of(status) ==
    CASE get_status_color(status) = "Green" -> "done"
      [] get_status_color(status) = "Yellow" -> "in_progress"
      [] get_status_color(status) = "Magenta" -> "review"
      [] OTHER -> "todo"

\* The tickets of a lane: those of the groups of its statuses, in the
\* board's order.
RECURSIVE lane_tickets(_, _)
lane_tickets(groups, lane) ==
    IF groups = <<>> THEN <<>>
    ELSE (IF lane_of(groups[1].status) = lane
          THEN groups[1].tickets ELSE <<>>)
         \o lane_tickets(Tail(groups), lane)

\* active_lanes: the lanes that have a ticket, in the renderer's order.
LaneOrder ==
    << [title |-> "TO DO", lane |-> "todo", color |-> "Cyan"],
       [title |-> "IN PROGRESS", lane |-> "in_progress", color |-> "Yellow"],
       [title |-> "REVIEW", lane |-> "review", color |-> "Magenta"],
       [title |-> "DONE", lane |-> "done", color |-> "Green"] >>

\* active_lanes with the is_empty tests left out: all four lanes.
active_lanes_keeps_empty(groups) ==
    [n \in 1..Len(LaneOrder) |->
        [ title |-> LaneOrder[n].title,
          color |-> LaneOrder[n].color,
          tickets |-> lane_tickets(groups, LaneOrder[n].lane) ]]

active_lanes(groups) ==
    LET all == [n \in 1..Len(LaneOrder) |->
                   [ title |-> LaneOrder[n].title,
                     color |-> LaneOrder[n].color,
                     tickets |-> lane_tickets(groups, LaneOrder[n].lane) ]]
    IN  SelectSeq(all, LAMBDA lane : lane.tickets # <<>>)

TitleHeight == 2

\* The ways Ratio(1, n) constraints split a height among n lanes: every
\* lane gets the quotient or one row more, and the lanes fill the height.
ratio_split(height, n) ==
    { h \in [1..n -> {height \div n, height \div n + 1}] :
        LET RECURSIVE sum(_)
            sum(k) == IF k = 0 THEN 0 ELSE sum(k - 1) + h[k]
        IN  sum(n) = height }

\* The offset handed to a lane of n tickets that starts at global index
\* global_ticket_index.
selected_in(index, global_ticket_index, n) ==
    IF index >= global_ticket_index /\ index < global_ticket_index + n
    THEN Some(index - global_ticket_index)
    ELSE None

\* A lane as drawn.
lane_shown(lane, selected_ticket, area, drawn) ==
    [ title |-> lane.title, color |-> lane.color, tickets |-> lane.tickets,
      selected_ticket |-> selected_ticket, area |-> area,
      lines |-> drawn.lines, panic |-> drawn.panic ]

lane_area(width, height) == [width |-> width, height |-> height]

\* The selection tracking loop from lane i on: global_ticket_index is the
\* number of tickets in the lanes before it.  A panic in a lane ends the
\* render.
RECURSIVE draw_lanes(_, _, _, _, _, _, _)
RECURSIVE lanes_after(_, _, _, _, _, _, _, _)
lanes_after(shown, lanes, i, global_index, index, width, heights, checked) ==
    IF shown.panic THEN <<shown>>
    ELSE <<shown>> \o draw_lanes(lanes, i + 1,
                                 global_index + Len(shown.tickets),
                                 index, width, heights, checked)

draw_lanes(lanes, i, global_ticket_index, index, width, heights, checked) ==
    IF i > Len(lanes) THEN <<>>
    ELSE lanes_after(
             lane_shown(
                 lanes[i],
                 selected_in(index, global_ticket_index, Len(lanes[i].tickets)),
                 lane_area(width, heights[i]),
                 draw_lane(lane_area(width, heights[i]), lanes[i].tickets,
                           selected_in(index, global_ticket_index,
                                       Len(lanes[i].tickets)),
                           checked)),
             lanes, i, global_ticket_index, index, width, heights, checked)

\* The board as drawn.
board_shown(drawn, heights) ==
    [ view |-> "board", empty |-> FALSE, lanes |-> drawn,
      ratio |-> Some(Len(heights)),
      panic |-> drawn[Len(drawn)].panic ]

\* The "No tickets found" panel: the function returns before any layout.
no_tickets_panel ==
    [ view |-> "board", empty |-> TRUE, lanes |-> <<>>, ratio |-> None,
      panic |-> FALSE ]

\* draw_horizontal_lanes on an area, for one split of the lane heights: the
\* "No tickets found" panel, or the lanes as drawn.
draw_horizontal_lanes(area, groups, index, heights, checked) ==
    IF active_lanes(groups) = <<>>
    THEN no_tickets_panel
    ELSE board_shown(draw_lanes(active_lanes(groups), 1, 0, index,
                                area.width, heights, checked),
                     heights)

\* The statuses on the boards that are drawn: of three lanes, two of them
\* in the to-do lane.
BoardStatuses == {ToDo, Done, InProgress, Blocked}

BoardWidth == 60

\* Terminal heights that leave the lanes no row, a few rows, and room for
\* every ticket.
BoardHeights == {2, 4, 7, 20}

\* A board as main builds it, with a selection that is in range or one
\* past the last ticket, as a refresh that returns fewer tickets leaves it.
BoardInit ==
    /\ \E t \in TicketLists(BoardStatuses, MaxTickets) :
          \E index \in 0..Len(t) :
             StartState(t, from_tickets(t), index, None)
    /\ pc = "board"

\* One render of the board in Board mode.
DrawBoard ==
    /\ pc = "board"
    /\ \E height \in BoardHeights, checked \in BOOLEAN :
          LET area == [width |-> BoardWidth, height |-> height]
              lanes == saturating_sub(height, TitleHeight)
              lane_count == Len(active_lanes(columns))
          IN  IF lane_count = 0
              THEN frame' = draw_horizontal_lanes(area, columns,
                                                  selected_index, <<>>,
                                                  checked)
              ELSE \E heights \in ratio_split(lanes, lane_count) :
                      frame' = draw_horizontal_lanes(area, columns,
                                                     selected_index, heights,
                                                     checked)
    /\ pc' = "shown"
    /\ UNCHANGED <<board_vars, app_vars, time_vars, in_flight, polled,
                   log_vars>>

BoardNext == DrawBoard

SpecBoard == BoardInit /\ [][BoardNext]_vars

\* ------------------------------------------------------------------------
\* Properties
\* ------------------------------------------------------------------------

\* The (entry, position) places of the board that hold ticket t.
PlacesOf(t) ==
    { p \in UNION { {<<g, j>> : j \in 1..Len(columns[g].tickets)}
                    : g \in 1..Len(columns) } :
        columns[p[1]].tickets[p[2]] = t }

\* The number of tickets in the entries before entry g.
Offset(g) ==
    LET RECURSIVE upto(_)
        upto(h) == IF h = 0 THEN 0 ELSE upto(h - 1) + Len(columns[h].tickets)
    IN upto(g - 1)

\* C1: from_tickets drops and duplicates nothing: the group lengths sum to
\* the length of the input list and every input ticket is at exactly one
\* place of exactly one group.
C1_GroupingIsPartition ==
    pc \in {"grouped", "resolved"} =>
        /\ total_tickets(columns) = Len(tickets_in)
        /\ Offset(Len(columns) + 1) = Len(tickets_in)
        /\ \A i \in 1..Len(tickets_in) :
              Cardinality(PlacesOf(tickets_in[i])) = 1

\* A full-length input grouped into two groups, one of them with two tickets.
C1_Witness ==
    /\ pc = "grouped"
    /\ Len(tickets_in) = MaxTickets
    /\ Len(columns) = 2
    /\ \E g \in 1..Len(columns) : Len(columns[g].tickets) >= 2

\* The position in the unsorted input of the first ticket with this status.
FirstSeen(status) ==
    CHOOSE i \in 1..Len(tickets_in) :
        /\ tickets_in[i].status = status
        /\ \A j \in 1..(i - 1) : tickets_in[j].status # status

\* C2: the groups are iterated in ascending status rank, and groups of
\* equal rank in the order their statuses first appear in the input.
C2_IterationInRankOrder ==
    pc \in {"grouped", "resolved"} =>
        \A g \in 1..(Len(columns) - 1) :
            LET a == columns[g].status
                b == columns[g + 1].status
            IN \/ get_status_priority(a) < get_status_priority(b)
               \/ /\ get_status_priority(a) = get_status_priority(b)
                  /\ FirstSeen(a) < FirstSeen(b)

\* The first entry, in iteration order, whose tickets reach past index i.
FirstGroupPast(i) ==
    CHOOSE g \in 1..Len(columns) :
        /\ Offset(g) + Len(columns[g].tickets) > i
        /\ \A h \in 1..(g - 1) : ~(Offset(h) + Len(columns[h].tickets) > i)

\* C9: get_ticket_by_index(i) is none exactly when i >= total_tickets, and
\* otherwise the ticket at position i - offset of the first group with
\* offset + length > i.
C9_ResolveByPrefixSum ==
    pc = "resolved" =>
        LET i == lookup.index IN
        /\ (lookup.result = None) <=> (i >= total_tickets(columns))
        /\ i < Offset(Len(columns) + 1) =>
              LET g == FirstGroupPast(i) IN
              lookup.result = Some(columns[g].tickets[i - Offset(g) + 1])

\* An index that resolves to the first ticket of the second group.
C9_Witness ==
    /\ pc = "resolved"
    /\ Len(columns) >= 2
    /\ lookup.index = Len(columns[1].tickets)
    /\ lookup.result = Some(columns[2].tickets[1])

\* The keys of a ticket sequence.
KeysOf(tickets) == [i \in 1..Len(tickets) |-> tickets[i].key]

\* The key of the ticket index i resolves to, <<>> when it resolves to none.
ResolvedKey(i) ==
    LET found == get_ticket_by_index(columns, i) IN
    IF found = None THEN <<>> ELSE found[1].key

\* Every logged key is the one given.
AllKeys(key) == \A n \in 1..Len(trail) : trail[n].key = key

\* The selected index before the n-th logged key.
IndexBefore(n) == IF n = 1 THEN nav_start[1] ELSE trail[n - 1].index

\* The input of the end-to-end scenario.
Scenario == <<Ticket(1, ToDo), Ticket(2, Done), Ticket(3, ToDo)>>

\* C3: for [A-1 "To Do", A-2 "Done", A-3 "To Do"] the board has 3 tickets
\* in two lanes, "To Do" [A-1, A-3] before "Done" [A-2]; index 0 resolves
\* to A-1, one move_down to A-3, a second to A-2 and a third back to A-1.
C3_ScenarioWalk ==
    (tickets_in = Scenario /\ nav_start = Some(0) /\ AllKeys("Down")) =>
        /\ total_tickets(columns) = 3
        /\ Len(columns) = 2
        /\ columns[1].status = ToDo
        /\ KeysOf(columns[1].tickets) = <<Key(1), Key(3)>>
        /\ columns[2].status = Done
        /\ KeysOf(columns[2].tickets) = <<Key(2)>>
        /\ ResolvedKey(selected_index)
              = <<Key(1), Key(3), Key(2)>>[(Len(trail) % 3) + 1]

\* C4: on a fixed board with tickets, from an index in [0, total), every
\* sequence of move_up and move_down keys leaves selected_index in
\* [0, total).
C4_SelectionStaysInRange ==
    total_tickets(columns) > 0 =>
        selected_index \in 0..(total_tickets(columns) - 1)

\* Both wraps have happened: an Up from index 0 and a Down from the last.
C4_Witness ==
    /\ total_tickets(columns) >= 2
    /\ \E n \in 1..Len(trail) :
          /\ trail[n].key = "Up"
          /\ IndexBefore(n) = 0
          /\ trail[n].index = total_tickets(columns) - 1
    /\ \E n \in 1..Len(trail) :
          /\ trail[n].key = "Down"
          /\ IndexBefore(n) = total_tickets(columns) - 1
          /\ trail[n].index = 0

\* C5: in every state of the run loop selected_index < total_tickets when
\* the board has tickets, and selected_index = 0 when it has none.
C5_SelectionValidAfterRefresh ==
    /\ total_tickets(columns) > 0 => selected_index < total_tickets(columns)
    /\ total_tickets(columns) = 0 => selected_index = 0

\* C6: with tickets on the board, a move_down followed by a move_up leaves
\* selected_index where it was before the two keys.
C6_DownThenUpIsIdentity ==
    \A n \in 2..Len(trail) :
        ( /\ total_tickets(columns) > 0
          /\ trail[n - 1].key = "Down"
          /\ trail[n].key = "Up" )
        => trail[n].index = IndexBefore(n - 1)

\* A move_down from the last index wrapped to 0 and the move_up wrapped back.
C6_Witness ==
    /\ total_tickets(columns) >= 2
    /\ Len(trail) = 2
    /\ nav_start = Some(total_tickets(columns) - 1)
    /\ trail[1] = [key |-> "Down", index |-> 0]
    /\ trail[2].key = "Up"
    /\ selected_index = total_tickets(columns) - 1

\* C7: with total > 0 tickets, total move_downs return to the starting
\* index, and the total selections on the way resolve to every ticket of
\* the board exactly once.
C7_FullCycle ==
    ( /\ total_tickets(columns) > 0
      /\ Len(trail) = total_tickets(columns)
      /\ AllKeys("Down") )
    => /\ selected_index = nav_start[1]
       /\ \A i \in 1..Len(tickets_in) :
             Cardinality({ n \in 1..Len(trail) :
                 get_ticket_by_index(columns, trail[n].index)
                     = Some(tickets_in[i]) }) = 1

\* A full cycle over a board of several groups, started in the middle.
C7_Witness ==
    /\ total_tickets(columns) = MaxTickets
    /\ Len(columns) >= 2
    /\ nav_start = Some(1)
    /\ Len(trail) = MaxTickets
    /\ AllKeys("Down")
    /\ selected_index = 1

\* C8: while the board holds no tickets, move_up and move_down leave
\* selected_index unchanged, whatever value it holds.
C8_NoOpOnEmptyBoard ==
    [][ ((BoardKeyUp \/ BoardKeyDown) /\ total_tickets(columns) = 0)
        => selected_index' = selected_index ]_vars

\* C10: detail_scroll is within [0, detail_max_scroll] in every state, under
\* every interleaving of scroll keys, renders at changing terminal heights
\* and entries into and exits from Detail mode.
C10_ScrollWithinBounds ==
    /\ detail_scroll >= 0
    /\ detail_scroll <= detail_max_scroll

\* The scroll offset sits at a bound more than a page down, in a viewport
\* that shows some lines.
C10_Witness ==
    /\ mode = "Detail"
    /\ pc = "poll"
    /\ frame.view = "detail"
    /\ frame.visible_lines > 0
    /\ detail_max_scroll > PageStep
    /\ detail_scroll = detail_max_scroll

Selected == get_ticket_by_index(columns, selected_index)

\* A step that ends the Enter arm for a selection that resolves to a ticket:
\* the detail fetch the loop waits in returns, or Enter finds the
\* description present and needs no fetch.
EnterArmEnds ==
    /\ Selected # None
    /\ \/ pc = "fetch" /\ (\E fetch \in in_flight : fetch.kind = "details")
       \/ BoardKeyEnter /\ pc' = "draw"

\* The detail fetch in flight returns the error e.
DetailFetchFails(e) == DetailsReturn({FailedResponse(e)})

\* C12: Enter on a selection that resolves to a ticket always ends in Detail
\* mode with detail_ticket present and detail_scroll = 0, whether the detail
\* fetch succeeds, fails or is not needed; after a failed fetch detail_ticket
\* is the board ticket with "[Error fetching details]\n\n" and the error
\* text as its description.
C12_EnterOpensDetail ==
    [][EnterArmEnds =>
          /\ mode' = "Detail"
          /\ detail_ticket' # None
          /\ detail_scroll' = 0
          /\ detail_ticket'[1].key = Selected[1].key
          /\ Selected[1].description # None => detail_ticket' = Selected
          /\ \A r \in AllResponses :
                (~r.ok /\ DetailFetchFails(r.error)) =>
                   /\ detail_ticket'[1].description =
                         Some(<<91, 69, 114, 114, 111, 114, 32, 102, 101,
                                116, 99, 104, 105, 110, 103, 32, 100, 101,
                                116, 97, 105, 108, 115, 93, 10, 10>>
                              \o r.error)
                   /\ [detail_ticket'[1] EXCEPT !.description = None]
                         = Selected[1]]_vars

\* The detail view just opened on a ticket whose detail fetch failed.
C12_Witness ==
    /\ pc = "draw"
    /\ mode = "Detail"
    /\ detail_scroll = 0
    /\ Selected # None
    /\ detail_ticket =
          Some([Selected[1] EXCEPT
                   !.description = Some(ErrorPrefix \o UrlError)])

\* A refresh's fetch_tickets returns the outcome r.
RefreshReturn(r) == ManualRefreshReturn(r) \/ AutoRefreshReturn(r)

\* C13: when the fetch of a manual or an automatic refresh fails, the
\* board's ticket groups and the last-update time are what they were before
\* the attempt (the call changed neither, the failed return changes
\* neither), and the loop goes on, in the same mode, to its next draw.
C13_FailedRefreshKeepsBoard ==
    [][/\ (BoardKeyRefresh \/ AutoRefresh) =>
             UNCHANGED <<tickets_in, columns, last_update_time, mode>>
       /\ \A r \in FetchOutcomes :
             (~r.ok /\ RefreshReturn(r)) =>
                /\ UNCHANGED <<tickets_in, columns, last_update_time, mode>>
                /\ pc' = "draw"]_vars

\* An automatic refresh has just failed on a board with tickets: only the
\* Err arm of the automatic refresh moves the refresh timestamp past the
\* last-update time.
C13_Witness ==
    /\ pc = "draw"
    /\ in_flight = {}
    /\ last_refresh > last_update_time
    /\ columns # <<>>

\* The positions at which run_app has returned: with Ok(()) and with an
\* error.
Returned == {"exit", "failed"}

\* C14: the run loop ends only when a quit key is pressed in Board mode:
\* every step that takes the loop to a return is the Board mode quit key,
\* so no failed refresh, failed detail fetch, timeout or Detail mode key
\* ends it.
C14_OnlyBoardQuitEndsLoop ==
    [][(pc \notin Returned /\ pc' \in Returned) => BoardKeyQuit]_vars

\* A step of a refresh: the call of fetch_tickets or its return, for the
\* 'r' key or for the automatic refresh.
RefreshStep ==
    \/ BoardKeyRefresh
    \/ AutoRefresh
    \/ \E r \in FetchOutcomes : RefreshReturn(r)

\* C15: a refresh, successful or failed, manual or automatic, in Board or in
\* Detail mode, leaves mode, selected_index, detail_ticket and detail_scroll
\* unchanged: an automatic refresh while a ticket is viewed neither changes
\* nor discards detail_ticket and never enters or leaves Detail mode.
C15_RefreshKeepsAppState ==
    [][RefreshStep =>
          UNCHANGED <<mode, selected_index, detail_ticket,
                      detail_scroll>>]_vars

\* A ticket is still being viewed after an automatic refresh emptied the
\* board under it.
C15_Witness ==
    /\ mode = "Detail"
    /\ detail_ticket # None
    /\ columns = <<>>
    /\ pc = "draw"

\* The poll timed out (no event of any kind) with the pause flag off and the
\* refresh interval elapsed since the refresh timestamp.
TimedOutDue ==
    /\ pc = "poll"
    /\ polled' = "timeout"
    /\ ~paused
    /\ now' - last_refresh >= RefreshSeconds

\* C16: whenever the poll times out with no key event while the pause flag
\* is off and the refresh interval has elapsed, the automatic refresh's
\* fetch is issued in that same iteration; and so, while the loop is not
\* paused and no key arrives, an automatic refresh is eventually issued (as
\* long as the clock has room for the timeout to pass).
C16_AutoRefreshFires ==
    /\ [][TimedOutDue => (pc' = "fetch" /\ AutoFetch \in in_flight')]_vars
    /\ (pc = "poll" /\ ~paused /\ now + timeout <= MaxTime)
          ~> (AutoFetch \in in_flight \/ paused)

\* C17: while the pause flag is set no automatic refresh fetch is issued,
\* however much time has elapsed, and the pause key in Board mode flips the
\* pause flag and changes nothing else: not the board, the selection, the
\* mode, the detail state or the refresh timestamp.
C17_PauseStopsAutoRefresh ==
    [][/\ paused => (AutoFetch \in in_flight' <=> AutoFetch \in in_flight)
       /\ BoardKeyPause =>
             /\ paused' = ~paused
             /\ UNCHANGED <<tickets_in, columns, mode, selected_index,
                            detail_ticket, detail_scroll, detail_max_scroll,
                            last_refresh, last_update_time, in_flight>>]_vars

\* The poll has just timed out with the pause flag set and the refresh
\* overdue by more than the interval.
C17_Witness ==
    /\ paused
    /\ polled = "timeout"
    /\ pc = "draw"
    /\ now - last_refresh > RefreshSeconds

\* C18: at most one fetch (board refresh or detail fetch) is in progress at
\* any time, and while one is in progress the loop is inside that call: the
\* only step it takes is the return of that fetch, with no event read and
\* no frame drawn. Fetches therefore return in the order they were started,
\* and the board is always the grouping of the list the most recent
\* successful fetch_tickets (or the initial fetch) returned.
C18_FetchesAreSequential ==
    /\ [](/\ Cardinality(in_flight) <= 1
          /\ in_flight # {} <=> pc = "fetch"
          /\ columns = from_tickets(tickets_in))
    /\ [][in_flight # {} =>
             /\ in_flight' = {}
             /\ pc' = "draw"
             /\ UNCHANGED <<polled, frame, selected_index, paused>>]_vars

\* The loop waits in a detail fetch while the automatic refresh is due.
C18_Witness ==
    /\ pc = "fetch"
    /\ \E fetch \in in_flight : fetch.kind = "details"
    /\ ~paused
    /\ now - last_refresh >= RefreshSeconds

\* The loop reads a key that its mode's match names no arm for: in Board
\* mode page-up, page-down and any unbound key, in Detail mode the refresh,
\* pause and enter keys and any unbound key.
UnrecognizedKey ==
    /\ pc = "poll"
    /\ \/ mode = "Board" /\ polled' \in {"PageUp", "PageDown", "x"}
       \/ mode = "Detail" /\ polled' \in {"r", "p", "Enter", "x"}

\* C19: a key that is not one of the mode's keys leaves the whole state
\* unchanged (mode, selection, detail ticket and scroll, board, pause flag,
\* refresh timestamp and last-update time) and issues no fetch; the loop
\* goes on to its next draw.
C19_OtherKeysAreNoOps ==
    [][UnrecognizedKey =>
          /\ UNCHANGED <<tickets_in, columns, mode, selected_index,
                         detail_ticket, detail_scroll, detail_max_scroll,
                         paused, last_refresh, last_update_time, in_flight>>
          /\ pc' = "draw"]_vars

\* The refresh, pause or enter key has just been read in Detail mode.
C19_Witness ==
    /\ mode = "Detail"
    /\ detail_ticket # None
    /\ polled \in {"r", "p", "Enter"}
    /\ pc = "draw"

\* The ordered keyword table of the status ranks: a rule matches a lowered
\* status that contains one of its `has` keywords or equals one of its `is`
\* strings.
RankRules ==
    <<[rank |-> 0, has |-> {Kw.backlog}, is |-> {}],
      [rank |-> 1, has |-> {Kw.todo}, is |-> {Kw.to_do}],
      [rank |-> 2, has |-> {Kw.open, Kw.new}, is |-> {}],
      [rank |-> 3, has |-> {Kw.ready_for_development, Kw.ready_to_start},
       is |-> {}],
      [rank |-> 10, has |-> {Kw.in_progress, Kw.in_dash_progress}, is |-> {}],
      [rank |-> 11, has |-> {Kw.development, Kw.in_dev}, is |-> {}],
      [rank |-> 12, has |-> {Kw.coding, Kw.implementing}, is |-> {}],
      [rank |-> 15, has |-> {Kw.ready_to_ship, Kw.ready_for_deploy},
       is |-> {}],
      [rank |-> 20, has |-> {Kw.review, Kw.pr}, is |-> {}],
      [rank |-> 21, has |-> {Kw.testing, Kw.qa}, is |-> {}],
      [rank |-> 22, has |-> {Kw.verification, Kw.approval}, is |-> {}],
      [rank |-> 23, has |-> {Kw.staging}, is |-> {}],
      [rank |-> 30, has |-> {Kw.done}, is |-> {}],
      [rank |-> 31, has |-> {Kw.closed}, is |-> {}],
      [rank |-> 32, has |-> {Kw.resolved}, is |-> {}],
      [rank |-> 33, has |-> {Kw.shipped, Kw.deployed}, is |-> {}],
      [rank |-> 34, has |-> {Kw.complete}, is |-> {}]>>

\* Rule n of the table matches the status, whatever its case.
RuleMatches(n, status) ==
    LET lowered == [i \in 1..Len(status) |->
                       IF status[i] \in 65..90 THEN status[i] + 32
                       ELSE status[i]]
    IN \/ \E k \in RankRules[n].has :
             \E at \in 1..(Len(lowered) - Len(k) + 1) :
                SubSeq(lowered, at, at + Len(k) - 1) = k
       \/ lowered \in RankRules[n].is

\* The rules of the table that match the status.
MatchingRules(status) ==
    { n \in 1..Len(RankRules) : RuleMatches(n, status) }

\* C20: get_status_priority returns the rank of the first rule of the
\* ordered, case-insensitive keyword table that matches the status, and 15
\* when none does; "To Do" has rank 1, "Code Review" 20, "Shipped" 33 and
\* the unrecognized "Blocked" 15.
C20_RankIsFirstMatch ==
    pc = "ranked" =>
        LET matching == MatchingRules(ranked.status) IN
        /\ matching = {} => ranked.result = 15
        /\ matching # {} =>
              \E n \in matching :
                 /\ \A other \in matching : n <= other
                 /\ ranked.result = RankRules[n].rank
        /\ ranked.status = ToDo => ranked.result = 1
        /\ ranked.status = CodeReview => ranked.result = 20
        /\ ranked.status = Shipped => ranked.result = 33
        /\ ranked.status = Blocked => ranked.result = 15

\* A capitalized status that a later rule matches as well as an earlier one
\* has been ranked by the earlier one: "Approval" holds "pr".
C20_Witness ==
    /\ pc = "ranked"
    /\ ranked.status = Capitalized(Kw.approval)
    /\ ranked.result = 20
    /\ Cardinality(MatchingRules(ranked.status)) = 2

\* The bucket an emoji and a colour stand for.
EmojiBucket(glyph) ==
    CASE glyph = <<9989>> -> "done"
      [] glyph = <<128640>> -> "progress"
      [] glyph = <<128269>> -> "review"
      [] glyph = <<128203>> -> "todo"
      [] OTHER -> "default"

ColorBucket(color) ==
    CASE color = "Green" -> "done"
      [] color = "Yellow" -> "progress"
      [] color = "Magenta" -> "review"
      [] color = "Cyan" -> "todo"
      [] OTHER -> "default"

\* The status matches no rule of the rank table.
Unrecognized(status) == MatchingRules(status) = {}

\* C21: the bucket lookups for colour and emoji agree on every status and
\* place "To Do" in the todo bucket, "Code Review" in the review bucket,
\* "Shipped" in the done bucket and every status that matches no keyword
\* rule, such as "Blocked", in the todo bucket.
C21_BucketLookup ==
    pc = "styled" =>
        LET bucket == EmojiBucket(ranked.emoji) IN
        /\ ColorBucket(ranked.color) = bucket
        /\ ranked.status = ToDo => bucket = "todo"
        /\ ranked.status = CodeReview => bucket = "review"
        /\ ranked.status = Shipped => bucket = "done"
        /\ ranked.status = Blocked => bucket = "todo"
        /\ Unrecognized(ranked.status) => bucket = "todo"

\* What a drawn lane shows of the ticket at offset i: its lines, and whether
\* it was rendered at all.
LaneDrawn == pc = "drawn" /\ ~frame.panic

LinesOf(i) ==
    Cardinality({ n \in 1..Len(frame.lines) :
                    /\ frame.lines[n].kind \in {"ticket", "continuation"}
                    /\ frame.lines[n].ticket = i })

Rendered(i) == LinesOf(i) > 0

MainLine(i) ==
    CHOOSE l \in { frame.lines[n] : n \in 1..Len(frame.lines) } :
        l.kind = "ticket" /\ l.ticket = i

Offsets == 0..(Len(tickets_in) - 1)

Remaining(i) ==
    available_for_summary(content_width_of(frame.area.width),
                          tickets_in[i + 1])

\* C22: in a lane whose remaining width after the prefix is W, a rendered
\* ticket whose summary has exactly W characters takes exactly one line, and
\* one whose summary has W + 1 characters takes exactly two, the prefix line
\* and one continuation line.
C22_WrapAtWidth ==
    LaneDrawn =>
        \A i \in Offsets :
            Rendered(i) =>
                /\ Len(tickets_in[i + 1].summary) = Remaining(i)
                       => LinesOf(i) = 1
                /\ Len(tickets_in[i + 1].summary) = Remaining(i) + 1
                       => LinesOf(i) = 2

\* C23: for every lane area, lane heights 0 and 1 and content widths below
\* 4 included, and every ticket list, drawing the lane evaluates no unsigned
\* subtraction whose result is negative, and does not panic.
C23_NoUnderflow ==
    pc = "drawn" => ~frame.underflow /\ ~frame.panic

\* C25: when the prefix alone is at least as long as the content width, the
\* remaining width is 0 and a rendered ticket is its prefix line only: the
\* prefix line shows no summary text and no continuation line follows.
C25_PrefixOnly ==
    LaneDrawn =>
        \A i \in Offsets :
            /\ Rendered(i)
            /\ prefix_len(tickets_in[i + 1])
                   >= content_width_of(frame.area.width)
            => /\ Remaining(i) = 0
               /\ MainLine(i).text = <<>>
               /\ LinesOf(i) = 1

BodyLines ==
    Cardinality({ n \in 1..Len(frame.lines) :
                    frame.lines[n].kind # "overflow" })

\* C26: the ticket lines and separators a lane emits before the overflow
\* indicator number at most the lane's height minus one, and with the
\* indicator the lane emits no more lines than its height.
C26_HeightLimit ==
    LaneDrawn =>
        /\ BodyLines <= frame.area.height - 1
        /\ Len(frame.lines) <= frame.area.height

Indicators ==
    { n \in 1..Len(frame.lines) : frame.lines[n].kind = "overflow" }

NotRendered == { i \in Offsets : ~Rendered(i) }

\* C27: a lane ends with one "...and N more" line exactly when at least one
\* of its tickets was not rendered, and N is then the number of its tickets
\* that were not rendered.
C27_OverflowIndicator ==
    LaneDrawn =>
        /\ Cardinality(Indicators) <= 1
        /\ Indicators # {} <=> NotRendered # {}
        /\ \A n \in Indicators :
              /\ n = Len(frame.lines)
              /\ frame.lines[n].remaining = Cardinality(NotRendered)

\* A ticket with no description text, and one with no comment.
EmptyDescription(ticket) == ticket.description \in {None, Some(<<>>)}

NoComments(ticket) == ticket.comments \in {None, Some(<<>>)}

\* The placeholder line and the hint line follow the "Description:" heading
\* in a list of lines.
PlaceholderAfterHeading(ls) ==
    \E k \in 1..Len(ls) :
        /\ ls[k].kind = "heading"
        /\ k + 3 <= Len(ls)
        /\ ls[k + 1].kind = "placeholder"
        /\ ls[k + 3].kind = "hint"

\* C24: a ticket with an empty description and no comments, rendered in
\* Detail mode, has the placeholder line and the hint line after the
\* "Description:" heading, and whenever the viewport is at least as high as
\* the line list detail_max_scroll is 0 and all the lines are shown.
C24_EmptyDescription ==
    (/\ pc = "poll"
     /\ frame.view = "detail"
     /\ EmptyDescription(detail_ticket[1])
     /\ NoComments(detail_ticket[1]))
    => /\ PlaceholderAfterHeading(detail_lines(detail_ticket[1]))
       /\ frame.visible_lines >= frame.total_lines
              => /\ detail_max_scroll = 0
                 /\ PlaceholderAfterHeading(frame.content)

\* The entry of the board that holds the i-th input ticket, and the ticket's
\* position in that entry.
GroupOf(i) == (CHOOSE p \in PlacesOf(tickets_in[i]) : TRUE)[1]

PositionOf(i) == (CHOOSE p \in PlacesOf(tickets_in[i]) : TRUE)[2]

\* C30: from_tickets puts two tickets in the same group exactly when their
\* status strings are equal character for character, and inside every group
\* the tickets are in the order they had in the input list.
C30_GroupByExactStatus ==
    pc \in {"grouped", "resolved"} =>
        \A i, j \in 1..Len(tickets_in) :
            /\ GroupOf(i) = GroupOf(j)
                   <=> tickets_in[i].status = tickets_in[j].status
            /\ (i < j /\ GroupOf(i) = GroupOf(j))
                   => PositionOf(i) < PositionOf(j)

\* "To Do", "to do", "To Do": the statuses that differ only in case are two
\* groups, and the group of two has its tickets in input order.
C30_Witness ==
    /\ pc = "grouped"
    /\ Len(tickets_in) = 3
    /\ tickets_in[1].status = ToDo
    /\ tickets_in[2].status = to_do
    /\ tickets_in[3].status = ToDo
    /\ GroupOf(1) = GroupOf(3)
    /\ GroupOf(1) # GroupOf(2)
    /\ PositionOf(1) < PositionOf(3)

\* The (lane, line) places of a drawn board that carry the selection marker.
Marked ==
    UNION { { <<n, k>> : k \in { k \in 1..Len(frame.lanes[n].lines) :
                                   /\ frame.lanes[n].lines[k].kind = "ticket"
                                   /\ frame.lanes[n].lines[k].selected } }
            : n \in 1..Len(frame.lanes) }

\* The number of tickets in the active lanes before lane n.
LaneOffset(n) ==
    LET RECURSIVE upto(_)
        upto(h) == IF h = 0 THEN 0
                   ELSE upto(h - 1) + Len(active_lanes(columns)[h].tickets)
    IN upto(n - 1)

LaneTotal == LaneOffset(Len(active_lanes(columns)) + 1)

\* The active lane that contains the global index i.
LaneWith(i) ==
    CHOOSE n \in 1..Len(active_lanes(columns)) :
        /\ LaneOffset(n) <= i
        /\ i < LaneOffset(n + 1)

BoardShown == pc = "shown" /\ ~frame.panic

\* C28: on every render of the board with selected_index below the number
\* of tickets in the active lanes, exactly one ticket of all lanes carries
\* the selection marker, the one at offset selected_index minus the lengths
\* of the lanes before it in the lane that contains the index; with
\* selected_index at or past that number no ticket carries it; and no lane
\* without tickets is drawn.
C28_OneTicketMarked ==
    BoardShown =>
        /\ \A n \in 1..Len(frame.lanes) : frame.lanes[n].tickets # <<>>
        /\ selected_index >= LaneTotal => Marked = {}
        /\ selected_index < LaneTotal =>
              /\ Cardinality(Marked) = 1
              /\ \A p \in Marked :
                    /\ p[1] = LaneWith(selected_index)
                    /\ frame.lanes[p[1]].lines[p[2]].ticket
                           = selected_index - LaneOffset(p[1])

\* The tickets the renderer selects: in each lane that is handed an offset,
\* the ticket at that offset.
RendererSelects ==
    { frame.lanes[n].tickets[frame.lanes[n].selected_ticket[1] + 1] :
        n \in { n \in 1..Len(frame.lanes) :
                  frame.lanes[n].selected_ticket # None } }

\* C29: for every board and every selected_index in range, the ticket the
\* renderer selects by walking its lanes is the ticket
\* get_ticket_by_index(selected_index) gives the Enter key.
C29_MarkedIsOpened ==
    (BoardShown /\ selected_index < total_tickets(columns)) =>
        RendererSelects = { get_ticket_by_index(columns, selected_index)[1] }

\* The lanes of the board that have a ticket.
NonEmptyLanes ==
    { n \in 1..Len(LaneOrder) :
        lane_tickets(columns, LaneOrder[n].lane) # <<>> }

\* C31: a render of the board draws one band for each lane that has a
\* ticket: no lane is drawn with an empty ticket list, the ratio 1/lane_count
\* is computed only with lane_count >= 1, and when no lane has a ticket only
\* the "no tickets" panel is drawn.
C31_OneBandPerLane ==
    pc = "shown" =>
        /\ \A n \in 1..Len(frame.lanes) : frame.lanes[n].tickets # <<>>
        /\ frame.ratio # None => frame.ratio[1] >= 1
        /\ frame.empty <=> NonEmptyLanes = {}
        /\ frame.empty => frame.lanes = <<>> /\ frame.ratio = None
        /\ ~frame.empty =>
              /\ frame.ratio = Some(Cardinality(NonEmptyLanes))
              /\ ~frame.panic => Len(frame.lanes) = Cardinality(NonEmptyLanes)
              /\ \A n, k \in 1..Len(frame.lanes) :
                    n # k => frame.lanes[n].title # frame.lanes[k].title

\* A board whose tickets are all in two of the four lanes, drawn as two
\* bands.
C31_Witness ==
    /\ pc = "shown"
    /\ ~frame.panic
    /\ Cardinality(NonEmptyLanes) = 2
    /\ Len(frame.lanes) = 2
    /\ Len(tickets_in) = MaxTickets


\* A wrapped ticket is a rendered one whose summary did not pass the fit
\* test, and so went through the wrap loop.
Wrapped(i) ==
    /\ Rendered(i)
    /\ len(tickets_in[i + 1].summary) > Remaining(i)

HasContinuation(i) ==
    \E n \in 1..Len(frame.lines) :
        frame.lines[n].kind = "continuation" /\ frame.lines[n].ticket = i

ContinuationLine(i) ==
    CHOOSE l \in { frame.lines[n] : n \in 1..Len(frame.lines) } :
        l.kind = "continuation" /\ l.ticket = i

PrefixLineFits(i) == Len(MainLine(i).text) <= Remaining(i)

ContinuationFits(i) ==
    HasContinuation(i) =>
        Len(ContinuationLine(i).text)
            <= content_width_of(frame.area.width) - Indent

\* C32: for every wrapped ticket, the summary text on the prefix line is at
\* most the remaining width long, and the text on the continuation line is
\* at most the content width minus 4 long, whatever the lengths of the
\* words.
C32_WrappedLinesFit ==
    LaneDrawn =>
        \A i \in Offsets :
            Wrapped(i) => PrefixLineFits(i) /\ ContinuationFits(i)

\* The words a wrapped ticket shows, those of the prefix line first.
ContinuationText(i) ==
    IF HasContinuation(i) THEN ContinuationLine(i).text ELSE <<>>

ShownWords(i) ==
    split_whitespace(MainLine(i).text)
        \o split_whitespace(ContinuationText(i))

IsPrefix(s, t) == Len(s) <= Len(t) /\ s = SubSeq(t, 1, Len(s))

\* C33: for every wrapped ticket, the words shown, those of the prefix line
\* followed by those of the continuation line, are a prefix of the summary's
\* words in their order: no word of the prefix line comes after a word of
\* the continuation line, and no word is shown after a dropped one.
C33_ShownWordsArePrefix ==
    LaneDrawn =>
        \A i \in Offsets :
            Wrapped(i) =>
                IsPrefix(ShownWords(i),
                         split_whitespace(tickets_in[i + 1].summary))

\* C34: in every state of the run loop the mode is Detail exactly when a
\* detail ticket is present; so a render in Detail mode has a ticket to
\* draw, and Board mode holds no ticket of an earlier detail view.
C34_DetailIffTicket ==
    /\ mode = "Detail" <=> detail_ticket # None
    /\ frame.view # "blank"

\* The detail view was opened, drawn and left again.
C34_Witness ==
    /\ mode = "Board" /\ detail_ticket = None
    /\ frame.view = "detail" /\ polled \in QuitKeys

\* Enter is read in Board mode.
EnterPressed == pc = "poll" /\ mode = "Board" /\ polled' = "Enter"

SelectionEmpty == get_ticket_by_index(columns, selected_index) = None

\* C35: in Board mode, Enter on a selection that resolves to no ticket (the
\* board is empty, or the index is at or beyond the ticket count) leaves the
\* mode, the detail ticket, the detail scroll and the selected index as
\* they are, and calls no detail fetch.
C35_EnterOnNothing ==
    [][EnterPressed /\ SelectionEmpty =>
          /\ UNCHANGED <<mode, detail_ticket, detail_scroll, selected_index>>
          /\ in_flight' = in_flight
          /\ pc' = "draw"]_vars

\* Enter was pressed on a board with tickets and an index beyond them.
C35_Witness ==
    /\ polled = "Enter" /\ pc = "draw" /\ mode = "Board"
    /\ total_tickets(columns) > 0
    /\ selected_index >= total_tickets(columns)
    /\ SelectionEmpty /\ detail_ticket = None /\ in_flight = {}

\* The steps of the two refreshes: the automatic refresh calls fetch_tickets,
\* and a fetch_tickets call of either refresh returns.
AutoAttempt == pc = "poll" /\ AutoFetch \in in_flight'

AutoReturned == pc = "fetch" /\ AutoFetch \in in_flight /\ pc' = "draw"

ManualReturned == pc = "fetch" /\ ManualFetch \in in_flight /\ pc' = "draw"

\* What only the Ok arm of a refresh does.
RefreshApplied ==
    \/ tickets_in' # tickets_in
    \/ columns' # columns
    \/ last_update_time' # last_update_time

\* C36: every automatic refresh attempt, whether its fetch succeeds or
\* fails, ends with the refresh timestamp set to the time of its return, and
\* an attempt is made only when at least the refresh interval has passed
\* since that timestamp, which never moves back: two consecutive automatic
\* attempts are at least the interval apart.  A manual refresh that succeeds
\* sets the timestamp as well, and one that fails leaves it as it was.
C36_RefreshResetsTimer ==
    [][/\ AutoReturned => last_refresh' = now'
       /\ AutoAttempt =>
             /\ ~paused
             /\ now' - last_refresh >= RefreshSeconds
             /\ last_refresh' = last_refresh
       /\ ManualReturned =>
             IF RefreshApplied
             THEN last_refresh' = now'
             ELSE last_refresh' = last_refresh
       /\ last_refresh <= last_refresh' /\ last_refresh' <= now']_vars

\* A second automatic attempt, one interval after the first one failed: no
\* refresh has succeeded, and the timestamp is the first attempt's.
C36_Witness ==
    /\ pc = "fetch" /\ AutoFetch \in in_flight
    /\ last_update_time = 0 /\ last_refresh = RefreshSeconds
    /\ now = 2 * RefreshSeconds

====
